------------------------------ MODULE Spec2Model ------------------------------
(***************************************************************************)
(* Golf Caddy strokes-gained engine (strokes_gained_engine.py).            *)
(*                                                                         *)
(* Text labels are sequences of one-character strings, so that lower(),    *)
(* strip() and startswith() are computed character by character.           *)
(* Yardages handled by the environmental adjusters are integers counted in *)
(* 1/YardUnit of a yard; every product and quotient the adjusters form is  *)
(* exact in that unit.                                                     *)
(***************************************************************************)
EXTENDS Integers, Sequences, FiniteSets, TLC

VARIABLES
    pc,         \* where the call in progress stands
    call,       \* the function called and its arguments
    ret,        \* the value the call returned
    filtered,   \* recommend_shots_with_sg: the candidates inside the window
    evaluated,  \* recommend_shots_with_sg: the entries built so far
    lastDraws,  \* the (depth, lateral) errors the last simulation drew
    ranked,     \* what recommend_shots_with_sg returned
    session,    \* app.py: st.session_state and the values of the widgets
    engineCalls \* app.py: the engine calls of the last script run

vars ==
    <<pc, call, ret, filtered, evaluated, lastDraws, ranked, session,
      engineCalls>>

recVars == <<filtered, evaluated, lastDraws, ranked>>

appVars == <<session, engineCalls>>

PyNone == [py |-> "None"]

(***************************************************************************)
(* str.lower(), str.upper(), str.strip(), str.startswith()                 *)
(***************************************************************************)
UpperToLower ==
    ("A" :> "a") @@ ("B" :> "b") @@ ("C" :> "c") @@ ("D" :> "d") @@
    ("E" :> "e") @@ ("F" :> "f") @@ ("G" :> "g") @@ ("H" :> "h") @@
    ("I" :> "i") @@ ("J" :> "j") @@ ("K" :> "k") @@ ("L" :> "l") @@
    ("M" :> "m") @@ ("N" :> "n") @@ ("O" :> "o") @@ ("P" :> "p") @@
    ("Q" :> "q") @@ ("R" :> "r") @@ ("S" :> "s") @@ ("T" :> "t") @@
    ("U" :> "u") @@ ("V" :> "v") @@ ("W" :> "w") @@ ("X" :> "x") @@
    ("Y" :> "y") @@ ("Z" :> "z")

LowerToUpper ==
    ("a" :> "A") @@ ("b" :> "B") @@ ("c" :> "C") @@ ("d" :> "D") @@
    ("e" :> "E") @@ ("f" :> "F") @@ ("g" :> "G") @@ ("h" :> "H") @@
    ("i" :> "I") @@ ("j" :> "J") @@ ("k" :> "K") @@ ("l" :> "L") @@
    ("m" :> "M") @@ ("n" :> "N") @@ ("o" :> "O") @@ ("p" :> "P") @@
    ("q" :> "Q") @@ ("r" :> "R") @@ ("s" :> "S") @@ ("t" :> "T") @@
    ("u" :> "U") @@ ("v" :> "V") @@ ("w" :> "W") @@ ("x" :> "X") @@
    ("y" :> "Y") @@ ("z" :> "Z")

LowerChar(c) == IF c \in DOMAIN UpperToLower THEN UpperToLower[c] ELSE c

UpperChar(c) == IF c \in DOMAIN LowerToUpper THEN LowerToUpper[c] ELSE c

Lower(s) == [i \in 1..Len(s) |-> LowerChar(s[i])]

Upper(s) == [i \in 1..Len(s) |-> UpperChar(s[i])]

Whitespace == {" ", "\t"}

RECURSIVE LStrip(_)
LStrip(s) == IF s # <<>> /\ Head(s) \in Whitespace THEN LStrip(Tail(s)) ELSE s

RECURSIVE RStrip(_)
RStrip(s) ==
    IF s # <<>> /\ s[Len(s)] \in Whitespace
    THEN RStrip(SubSeq(s, 1, Len(s) - 1))
    ELSE s

Strip(s) == RStrip(LStrip(s))

StartsWith(s, prefix) ==
    /\ Len(prefix) <= Len(s)
    /\ SubSeq(s, 1, Len(prefix)) = prefix

Padded(s) == <<" ">> \o s \o <<" ", " ">>

(***************************************************************************)
(* Labels the callers pass, and the literals the engine compares against.  *)
(***************************************************************************)
Flat == <<"F", "l", "a", "t">>

SlightUphill == <<"S", "l", "i", "g", "h", "t", " ", "U", "p", "h", "i", "l", "l">>

ModerateUphill == <<"M", "o", "d", "e", "r", "a", "t", "e", " ", "U", "p", "h", "i", "l", "l">>

SlightDownhill == <<"S", "l", "i", "g", "h", "t", " ", "D", "o", "w", "n", "h", "i", "l", "l">>

ModerateDownhill == <<"M", "o", "d", "e", "r", "a", "t", "e", " ", "D", "o", "w", "n", "h", "i", "l", "l">>

SteepUphill == <<"S", "t", "e", "e", "p", " ", "U", "p", "h", "i", "l", "l">>

SlightUpPrefix == <<"S", "l", "i", "g", "h", "t", " ", "U", "p">>

WindNone == <<"N", "o", "n", "e">>

WindInto == <<"I", "n", "t", "o">>

WindDown == <<"D", "o", "w", "n">>

WindCross == <<"C", "r", "o", "s", "s">>

WindLeft == <<"L", "e", "f", "t">>

StrengthLight == <<"L", "i", "g", "h", "t">>

StrengthMedium == <<"M", "e", "d", "i", "u", "m">>

StrengthHeavy == <<"H", "e", "a", "v", "y">>

StrengthGale == <<"G", "a", "l", "e">>

LieGood == <<"G", "o", "o", "d">>

LieOk == <<"O", "k">>

LieOkay == <<"O", "k", "a", "y">>

LieBad == <<"B", "a", "d">>

LiePlugged == <<"P", "l", "u", "g", "g", "e", "d">>

lit_slight_up == <<"s", "l", "i", "g", "h", "t", " ", "u", "p">>

lit_moderate_up == <<"m", "o", "d", "e", "r", "a", "t", "e", " ", "u", "p">>

lit_slight_down == <<"s", "l", "i", "g", "h", "t", " ", "d", "o", "w", "n">>

lit_moderate_down == <<"m", "o", "d", "e", "r", "a", "t", "e", " ", "d", "o", "w", "n">>

lit_none == <<"n", "o", "n", "e">>

lit_light == <<"l", "i", "g", "h", "t">>

lit_medium == <<"m", "e", "d", "i", "u", "m">>

lit_heavy == <<"h", "e", "a", "v", "y">>

lit_into == <<"i", "n", "t", "o">>

lit_down == <<"d", "o", "w", "n">>

lit_cross == <<"c", "r", "o", "s", "s">>

lit_good == <<"g", "o", "o", "d">>

lit_ok == <<"o", "k">>

lit_okay == <<"o", "k", "a", "y">>

lit_bad == <<"b", "a", "d">>

(***************************************************************************)
(* Units and input domains of the environmental adjusters.                 *)
(***************************************************************************)
YardUnit == 1500 * 100

MaxYards == 300

Distances == {y * YardUnit : y \in 0..MaxYards}

WindDirs ==
    {WindNone, WindInto, WindDown, WindCross, WindLeft,
     Lower(WindInto), Lower(WindNone), Upper(WindDown), Padded(WindInto)}

WindStrengths ==
    {WindNone, StrengthLight, StrengthMedium, StrengthHeavy, StrengthGale,
     Lower(WindNone), Lower(StrengthMedium), Padded(Upper(StrengthHeavy))}

ElevationLabels ==
    LET known == {Flat, SlightUphill, ModerateUphill, SlightDownhill,
                  ModerateDownhill}
    IN  known \cup {Lower(l) : l \in known} \cup {Upper(l) : l \in known}
              \cup {Padded(ModerateUphill), SteepUphill, SlightUpPrefix, <<>>}

LieLabels ==
    LET known == {LieGood, LieOk, LieBad}
    IN  known \cup {Lower(l) : l \in known} \cup {Upper(l) : l \in known}
              \cup {LieOkay, Padded(LieBad), LiePlugged, <<>>}

Max(a, b) == IF a >= b THEN a ELSE b

Min(a, b) == IF a <= b THEN a ELSE b

Abs(a) == IF a < 0 THEN -a ELSE a

(***************************************************************************)
(* WIND_STRENGTH_MAP.get(label, 0)                                         *)
(***************************************************************************)
WindStrengthMph(label) ==
    CASE label = lit_none   -> 0
      [] label = lit_light  -> 5
      [] label = lit_medium -> 10
      [] label = lit_heavy  -> 20
      [] OTHER              -> 0

(***************************************************************************)
(* adjust_for_wind.  scale = clamp(target / 150, 0.5, 1.2); tenth is       *)
(* wind_mph * 0.1 * scale, so that the three branches add 9, -4 and 1      *)
(* tenths.  The wind direction is lower-cased but not stripped.            *)
(***************************************************************************)
AdjustForWind_TailwindAdds(target, wind_dir, wind_strength_label) ==
    LET label    == Strip(Lower(wind_strength_label))
        wind_mph == WindStrengthMph(label)
        scale150 == Max(75 * YardUnit, Min(target, 180 * YardUnit))
        tenth    == wind_mph * (scale150 \div 1500)
        wd       == Lower(wind_dir)
    IN  IF wd = lit_into THEN target + 9 * tenth
        ELSE IF wd = lit_down THEN target + 4 * tenth
        ELSE IF wd = lit_cross THEN target + tenth
        ELSE target

AdjustForWind_ScaleNotClamped(target, wind_dir, wind_strength_label) ==
    LET label    == Strip(Lower(wind_strength_label))
        wind_mph == WindStrengthMph(label)
        tenth    == wind_mph * (target \div 1500)
        wd       == Lower(wind_dir)
    IN  IF wd = lit_into THEN target + 9 * tenth
        ELSE IF wd = lit_down THEN target - 4 * tenth
        ELSE IF wd = lit_cross THEN target + tenth
        ELSE target

AdjustForWind(target, wind_dir, wind_strength_label) ==
    LET label    == Strip(Lower(wind_strength_label))
        wind_mph == WindStrengthMph(label)
        scale150 == Max(75 * YardUnit, Min(target, 180 * YardUnit))
        tenth    == wind_mph * (scale150 \div 1500)
        wd       == Lower(wind_dir)
    IN  IF wd = lit_into THEN target + 9 * tenth
        ELSE IF wd = lit_down THEN target - 4 * tenth
        ELSE IF wd = lit_cross THEN target + tenth
        ELSE target

(***************************************************************************)
(* apply_elevation                                                         *)
(***************************************************************************)
ApplyElevation_CaseSensitive(target, elevation_label) ==
    LET label == Strip(elevation_label)
        delta == IF StartsWith(label, lit_slight_up) THEN 5 * YardUnit
                 ELSE IF StartsWith(label, lit_moderate_up) THEN 10 * YardUnit
                 ELSE IF StartsWith(label, lit_slight_down) THEN -5 * YardUnit
                 ELSE IF StartsWith(label, lit_moderate_down) THEN -10 * YardUnit
                 ELSE 0
    IN  target + delta

ApplyElevation(target, elevation_label) ==
    LET label == Strip(Lower(elevation_label))
        delta == IF StartsWith(label, lit_slight_up) THEN 5 * YardUnit
                 ELSE IF StartsWith(label, lit_moderate_up) THEN 10 * YardUnit
                 ELSE IF StartsWith(label, lit_slight_down) THEN -5 * YardUnit
                 ELSE IF StartsWith(label, lit_moderate_down) THEN -10 * YardUnit
                 ELSE 0
    IN  target + delta

(***************************************************************************)
(* apply_lie.  mult is held in hundredths.                                 *)
(***************************************************************************)
ApplyLie_BadPlaysTenPercent(target, lie_label) ==
    LET lie  == Strip(Lower(lie_label))
        mult == IF lie = lit_good THEN 100
                ELSE IF lie \in {lit_ok, lit_okay} THEN 105
                ELSE IF lie = lit_bad THEN 110
                ELSE 100
    IN  (target \div 100) * mult

\* variant: a lie outside the table plays like a bad one
ApplyLie_UnknownPlaysBad(target, lie_label) ==
    LET lie  == Strip(Lower(lie_label))
        mult == IF lie = lit_good THEN 100
                ELSE IF lie \in {lit_ok, lit_okay} THEN 105
                ELSE 112
    IN  (target \div 100) * mult

ApplyLie(target, lie_label) ==
    LET lie  == Strip(Lower(lie_label))
        mult == IF lie = lit_good THEN 100
                ELSE IF lie \in {lit_ok, lit_okay} THEN 105
                ELSE IF lie = lit_bad THEN 112
                ELSE 100
    IN  (target \div 100) * mult

(***************************************************************************)
(* The adjusters are pure functions.  A run is one call: the initial state *)
(* holds the function and the arguments the caller passes (pc = "called"), *)
(* and the call's action computes the value returned (pc = "returned").    *)
(***************************************************************************)
WindCalls ==
    {[fn |-> "adjust_for_wind", target |-> d, wind_dir |-> wd, label |-> ws] :
        d \in Distances, wd \in WindDirs, ws \in WindStrengths}

ElevationCalls ==
    {[fn |-> "apply_elevation", target |-> d, label |-> el] :
        d \in Distances, el \in ElevationLabels}

LieCalls ==
    {[fn |-> "apply_lie", target |-> d, label |-> ll] :
        d \in Distances, ll \in LieLabels}

InitAdjust ==
    /\ pc = "called"
    /\ call \in WindCalls \cup ElevationCalls \cup LieCalls
    /\ ret = 0
    /\ filtered = <<>>
    /\ evaluated = <<>>
    /\ lastDraws = <<>>
    /\ ranked = <<>>
    /\ session = PyNone
    /\ engineCalls = <<>>

CallAdjustForWind ==
    /\ pc = "called"
    /\ call.fn = "adjust_for_wind"
    /\ ret' = AdjustForWind(call.target, call.wind_dir, call.label)
    /\ pc' = "returned"
    /\ UNCHANGED <<call, recVars, appVars>>

CallApplyElevation ==
    /\ pc = "called"
    /\ call.fn = "apply_elevation"
    /\ ret' = ApplyElevation(call.target, call.label)
    /\ pc' = "returned"
    /\ UNCHANGED <<call, recVars, appVars>>

CallApplyLie ==
    /\ pc = "called"
    /\ call.fn = "apply_lie"
    /\ ret' = ApplyLie(call.target, call.label)
    /\ pc' = "returned"
    /\ UNCHANGED <<call, recVars, appVars>>

NextAdjust ==
    \/ CallAdjustForWind
    \/ CallApplyElevation
    \/ CallApplyLie

SpecAdjust == InitAdjust /\ [][NextAdjust]_vars

(***************************************************************************)
(* Properties of the environmental adjusters (checked under SpecAdjust).   *)
(***************************************************************************)
WindReturned == pc = "returned" /\ call.fn = "adjust_for_wind"

ElevationReturned == pc = "returned" /\ call.fn = "apply_elevation"

LieReturned == pc = "returned" /\ call.fn = "apply_lie"

WindOfNone(d, s) == AdjustForWind(d, lit_none, s)

WindOfDown(d, s) == AdjustForWind(d, lit_down, s)

BlowingStrengths == {lit_light, lit_medium, lit_heavy}

\* C7 as stated: for every distance and every wind strength, the yardage
\* returned for "into" is strictly greater than the one for "none", which
\* is strictly greater than the one for "down".
C7_WindStrictForEveryStrength ==
    (WindReturned /\ call.wind_dir = lit_into) =>
        /\ ret > WindOfNone(call.target, call.label)
        /\ WindOfNone(call.target, call.label)
               > WindOfDown(call.target, call.label)

\* C7 amended: for every distance and every strength that blows (light,
\* medium, heavy) into > none > down strictly; for every other strength
\* ("none", or a label outside the table) the three yardages are equal.
C7_WindStrictWhenBlowing ==
    (WindReturned /\ call.wind_dir = lit_into) =>
        LET none == WindOfNone(call.target, call.label)
            down == WindOfDown(call.target, call.label)
        IN  IF Strip(Lower(call.label)) \in BlowingStrengths
            THEN ret > none /\ none > down
            ELSE ret = none /\ none = down /\ none = call.target

C7_Witness ==
    /\ WindReturned
    /\ call.wind_dir = lit_into
    /\ call.label = lit_medium
    /\ call.target = 150 * YardUnit
    /\ ret > WindOfNone(call.target, call.label)
    /\ WindOfNone(call.target, call.label)
           > WindOfDown(call.target, call.label)

C9_ElevationTable ==
    ElevationReturned =>
        LET same(l) == Lower(call.label) = Lower(l)
            plus(y) == ret = call.target + y * YardUnit
        IN  /\ same(Flat) => plus(0)
            /\ same(SlightUphill) => plus(5)
            /\ same(ModerateUphill) => plus(10)
            /\ same(SlightDownhill) => plus(-5)
            /\ same(ModerateDownhill) => plus(-10)

C9_Witness ==
    /\ ElevationReturned
    /\ call.label = ModerateUphill
    /\ call.target = 150 * YardUnit
    /\ ret = 160 * YardUnit

TroubleNone == <<"N", "o", "n", "e">>

TroubleMild == <<"M", "i", "l", "d">>

TroubleSevere == <<"S", "e", "v", "e", "r", "e">>

lit_mild == <<"m", "i", "l", "d">>

lit_severe == <<"s", "e", "v", "e", "r", "e">>

lit_fairway == <<"f", "a", "i", "r", "w", "a", "y">>

lit_rough == <<"r", "o", "u", "g", "h">>

lit_sand == <<"s", "a", "n", "d">>

lit_recovery == <<"r", "e", "c", "o", "v", "e", "r", "y">>

lit_green == <<"g", "r", "e", "e", "n">>

lit_scoring_wedge ==
    <<"s", "c", "o", "r", "i", "n",
      "g", "_", "w", "e", "d", "g", "e">>

lit_short_iron == <<"s", "h", "o", "r", "t", "_", "i", "r", "o", "n">>

lit_mid_iron == <<"m", "i", "d", "_", "i", "r", "o", "n">>

lit_long == <<"l", "o", "n", "g">>

FirmnessMedium == <<"M", "e", "d", "i", "u", "m">>

STRATEGY_BALANCED == "Balanced"

STRATEGY_CONSERVATIVE == "Conservative"

STRATEGY_AGGRESSIVE == "Aggressive"

MaxSim == 2

RECURSIVE Gcd(_, _)
Gcd(a, b) == IF b = 0 THEN a ELSE Gcd(b, a % b)

Lcm(a, b) == (a * b) \div Gcd(a, b)

RECURSIVE LcmUpTo(_)
LcmUpTo(n) == IF n <= 1 THEN 1 ELSE Lcm(n, LcmUpTo(n - 1))

(***************************************************************************)
(* _EXPECTED_STROKES_BY_LIE: anchors <<yards, strokes in hundredths>>      *)
(***************************************************************************)
FairwayTable ==
    << <<0, 100>>, <<3, 107>>, <<8, 125>>, <<20, 165>>, <<40, 190>>,
       <<80, 220>>, <<120, 255>>, <<160, 280>>, <<200, 300>>, <<240, 325>>,
       <<280, 350>>, <<360, 390>> >>

RoughTable ==
    << <<0, 105>>, <<3, 112>>, <<8, 135>>, <<20, 180>>, <<40, 205>>,
       <<80, 245>>, <<120, 280>>, <<160, 305>>, <<200, 330>>, <<240, 360>>,
       <<280, 385>>, <<360, 425>> >>

SandTable ==
    << <<0, 110>>, <<3, 120>>, <<8, 145>>, <<20, 195>>, <<40, 225>>,
       <<80, 270>>, <<120, 310>>, <<160, 340>>, <<200, 370>>, <<240, 400>>,
       <<280, 430>>, <<360, 470>> >>

RecoveryTable ==
    << <<0, 120>>, <<10, 160>>, <<30, 210>>, <<60, 260>>, <<100, 310>>,
       <<150, 360>>, <<220, 410>>, <<300, 460>>, <<380, 500>> >>

GreenTable ==
    << <<0, 100>>, <<3, 120>>, <<8, 140>>, <<20, 180>> >>

\* variant: the rough and sand tables change places
ExpectedStrokesByLie_RoughSandSwapped(lie) ==
    CASE lie = lit_fairway  -> FairwayTable
      [] lie = lit_rough    -> SandTable
      [] lie = lit_sand     -> RoughTable
      [] lie = lit_recovery -> RecoveryTable
      [] lie = lit_green    -> GreenTable
      [] OTHER              -> FairwayTable

ExpectedStrokesByLie(lie) ==
    CASE lie = lit_fairway  -> FairwayTable
      [] lie = lit_rough    -> RoughTable
      [] lie = lit_sand     -> SandTable
      [] lie = lit_recovery -> RecoveryTable
      [] lie = lit_green    -> GreenTable
      [] OTHER              -> FairwayTable

SegmentWidths ==
    UNION {{t[i + 1][1] - t[i][1] : i \in 1..(Len(t) - 1)} :
              t \in {FairwayTable, RoughTable, SandTable, RecoveryTable,
                     GreenTable}}

RECURSIVE LcmOfSet(_)
LcmOfSet(S) ==
    IF S = {} THEN 1
    ELSE LET x == CHOOSE y \in S : TRUE IN Lcm(x, LcmOfSet(S \ {x}))

SegmentLcm == LcmOfSet(SegmentWidths)

StrokeHundredth == SegmentLcm * 10 * LcmUpTo(MaxSim)

StrokeUnit == 100 * StrokeHundredth

(***************************************************************************)
(* _interp_expected_strokes.  distance_yards is in 1/YardUnit yards and    *)
(* profile_factor in tenths; the value is in 1/StrokeUnit strokes.  The    *)
(* interpolation works on hundredths of a yard.                            *)
(***************************************************************************)
\* variant: inside a segment the value is the lower anchor's
RECURSIVE InterpSegment_StepFunction(_, _, _)
InterpSegment_StepFunction(table, d, i) ==
    IF i > Len(table) - 1 THEN table[Len(table)][2] * SegmentLcm
    ELSE LET d0 == table[i][1]
             s0 == table[i][2]
             d1 == table[i + 1][1]
         IN  IF d0 * YardUnit <= d /\ d <= d1 * YardUnit
             THEN s0 * SegmentLcm
             ELSE InterpSegment_StepFunction(table, d, i + 1)

RECURSIVE InterpSegment(_, _, _)
InterpSegment(table, d, i) ==
    IF i > Len(table) - 1 THEN table[Len(table)][2] * SegmentLcm
    ELSE LET d0 == table[i][1]
             s0 == table[i][2]
             d1 == table[i + 1][1]
             s1 == table[i + 1][2]
         IN  IF d0 * YardUnit <= d /\ d <= d1 * YardUnit
             THEN IF d1 = d0 THEN s0 * SegmentLcm
                  ELSE s0 * SegmentLcm
                       + (((d \div 1500) - 100 * d0) * (s1 - s0)
                              * (SegmentLcm \div (d1 - d0))) \div 100
             ELSE InterpSegment(table, d, i + 1)

\* variant: beyond the last anchor the first anchor's value is returned
InterpExpectedStrokes_BeyondLastIsFirst(distance_yards, lie_type, profile_factor) ==
    LET d     == Max(0, distance_yards)
        lie   == Lower(IF lie_type = <<>> THEN lit_fairway ELSE lie_type)
        table == ExpectedStrokesByLie(lie)
        base  == IF d <= table[1][1] * YardUnit
                 THEN table[1][2] * SegmentLcm
                 ELSE IF d >= table[Len(table)][1] * YardUnit
                 THEN table[1][2] * SegmentLcm
                 ELSE InterpSegment(table, d, 1)
    IN  base * Max(8, profile_factor) * LcmUpTo(MaxSim)

\* variant: the factor is floored at 1.0
InterpExpectedStrokes_FactorFloorOne(distance_yards, lie_type, profile_factor) ==
    LET d     == Max(0, distance_yards)
        lie   == Lower(IF lie_type = <<>> THEN lit_fairway ELSE lie_type)
        table == ExpectedStrokesByLie(lie)
        base  == IF d <= table[1][1] * YardUnit
                 THEN table[1][2] * SegmentLcm
                 ELSE IF d >= table[Len(table)][1] * YardUnit
                 THEN table[Len(table)][2] * SegmentLcm
                 ELSE InterpSegment(table, d, 1)
    IN  base * Max(10, profile_factor) * LcmUpTo(MaxSim)

\* variant: the factor has no floor
InterpExpectedStrokes_NoFactorFloor(distance_yards, lie_type, profile_factor) ==
    LET d     == Max(0, distance_yards)
        lie   == Lower(IF lie_type = <<>> THEN lit_fairway ELSE lie_type)
        table == ExpectedStrokesByLie(lie)
        base  == IF d <= table[1][1] * YardUnit
                 THEN table[1][2] * SegmentLcm
                 ELSE IF d >= table[Len(table)][1] * YardUnit
                 THEN table[Len(table)][2] * SegmentLcm
                 ELSE InterpSegment(table, d, 1)
    IN  base * profile_factor * LcmUpTo(MaxSim)

InterpExpectedStrokes(distance_yards, lie_type, profile_factor) ==
    LET d     == Max(0, distance_yards)
        lie   == Lower(IF lie_type = <<>> THEN lit_fairway ELSE lie_type)
        table == ExpectedStrokesByLie(lie)
        base  == IF d <= table[1][1] * YardUnit
                 THEN table[1][2] * SegmentLcm
                 ELSE IF d >= table[Len(table)][1] * YardUnit
                 THEN table[Len(table)][2] * SegmentLcm
                 ELSE InterpSegment(table, d, 1)
    IN  base * Max(8, profile_factor) * LcmUpTo(MaxSim)

(***************************************************************************)
(* _strategy_penalty_multiplier and _trouble_severity, in tenths           *)
(***************************************************************************)
\* variant: every strategy pays the Balanced penalty
StrategyPenaltyMultiplier_Unscaled(strategy_label) ==
    LET lab == IF strategy_label = "" THEN STRATEGY_BALANCED
               ELSE strategy_label
    IN  IF lab = STRATEGY_CONSERVATIVE THEN 10
        ELSE IF lab = STRATEGY_AGGRESSIVE THEN 10
        ELSE 10

StrategyPenaltyMultiplier(strategy_label) ==
    LET lab == IF strategy_label = "" THEN STRATEGY_BALANCED
               ELSE strategy_label
    IN  IF lab = STRATEGY_CONSERVATIVE THEN 13
        ELSE IF lab = STRATEGY_AGGRESSIVE THEN 7
        ELSE 10

TroubleSeverity(label) ==
    LET l == Lower(IF label = <<>> THEN TroubleNone ELSE label)
    IN  IF l = lit_mild THEN 4
        ELSE IF l = lit_severe THEN 10
        ELSE 0

(***************************************************************************)
(* get_dispersion_sigma, get_lateral_sigma (1/YardUnit yards),             *)
(* _club_category                                                          *)
(***************************************************************************)
GetDispersionSigma(category) ==
    LET cat == Lower(category)
    IN  IF cat = lit_scoring_wedge THEN 5 * YardUnit
        ELSE IF cat = lit_short_iron THEN 7 * YardUnit
        ELSE IF cat = lit_mid_iron THEN 8 * YardUnit
        ELSE 10 * YardUnit

GetLateralSigma(category) ==
    LET cat  == Lower(category)
        base == GetDispersionSigma(cat)
    IN  IF cat = lit_scoring_wedge THEN (base \div 10) * 7
        ELSE IF cat = lit_short_iron THEN (base \div 10) * 8
        ELSE IF cat = lit_mid_iron THEN (base \div 10) * 9
        ELSE base

ClubCategory(club) ==
    IF club \in {"PW", "GW", "SW", "LW"} THEN lit_scoring_wedge
    ELSE IF club \in {"9i", "8i"} THEN lit_short_iron
    ELSE IF club \in {"7i", "6i", "5i"} THEN lit_mid_iron
    ELSE lit_long

(***************************************************************************)
(* np.random.normal.  The engine draws n_sim depth errors and n_sim        *)
(* lateral errors.  A normal variable with a positive scale can take any   *)
(* value, whatever its mean: DrawSet holds the (depth, lateral) pairs, in  *)
(* whole yards, the model lets it take.  They are chosen so that the       *)
(* radial miss sqrt(depth^2 + lateral^2) is a whole number of yards:       *)
(*   ( 5,   0)  5 yards from the hole, on the 5-yard depth threshold;      *)
(*   (-6,   0)  6 yards from the hole, just short of that threshold;       *)
(*   (12,  16)  20 yards, long and right of every threshold;               *)
(*   (-16,-12)  20 yards, short, on the 12-yard side threshold and left of *)
(*              the threshold of a 20-yard green (7 yards).                *)
(* A scale of 0 returns the mean itself; a negative scale raises           *)
(* ValueError (no draw).                                                   *)
(***************************************************************************)
ValueError == [raised |-> "ValueError"]

DrawSet ==
    {<<5 * YardUnit, 0>>, <<-6 * YardUnit, 0>>,
     <<12 * YardUnit, 16 * YardUnit>>, <<-16 * YardUnit, -12 * YardUnit>>}

NormalDraws(loc_depth, scale_depth, loc_lat, scale_lat) ==
    IF scale_depth < 0 \/ scale_lat < 0 THEN {}
    ELSE {<<IF scale_depth = 0 THEN loc_depth ELSE p[1],
            IF scale_lat = 0 THEN loc_lat ELSE p[2]>> : p \in DrawSet}

DrawSeqs(n, pairs) == [1..n -> pairs]

(***************************************************************************)
(* np.sqrt(depth_errors**2 + lat_errors**2), to the hundredth of a yard    *)
(***************************************************************************)
RECURSIVE IsqrtBetween(_, _, _)
IsqrtBetween(x, lo, hi) ==
    IF lo >= hi THEN lo
    ELSE LET mid == (lo + hi + 1) \div 2
         IN  IF mid * mid <= x THEN IsqrtBetween(x, mid, hi)
             ELSE IsqrtBetween(x, lo, mid - 1)

Hypot(depth, lat) ==
    LET dh == Abs(depth) \div 1500
        lh == Abs(lat) \div 1500
    IN  1500 * IsqrtBetween(dh * dh + lh * lh, 0, dh + lh)

RECURSIVE SumSeq(_)
SumSeq(s) == IF s = <<>> THEN 0 ELSE Head(s) + SumSeq(Tail(s))

(***************************************************************************)
(* _simulate_candidate_sg.  q holds the keyword arguments of the call and  *)
(* draws the pairs np.random.normal returned.                              *)
(***************************************************************************)
SideThreshold(green_width) ==
    IF green_width > 0 THEN ((green_width \div 2) \div 10) * 7
    ELSE 12 * YardUnit

\* variant: a draw exactly 5 yards long already counts as long
StrokesSample_LongAtThreshold(draw, q) ==
    LET depth        == draw[1]
        lat          == draw[2]
        remaining    == Hypot(depth, lat)
        outcome_lie  == IF q.start_surface = <<>> THEN lit_fairway
                        ELSE q.start_surface
        is_close     == remaining <= 5 * YardUnit
        lie_for_this == IF is_close THEN lit_green ELSE outcome_lie
        from_remaining ==
            InterpExpectedStrokes(remaining, lie_for_this, q.sg_profile_factor)
        short_severity == TroubleSeverity(q.short_trouble_label)
        long_severity  == TroubleSeverity(q.long_trouble_label)
        left_severity  == TroubleSeverity(q.left_trouble_label)
        right_severity == TroubleSeverity(q.right_trouble_label)
        strat_mult     == StrategyPenaltyMultiplier(q.strategy_label)
        side_thresh    == SideThreshold(q.green_width)
        extra(severity, mask) ==
            IF severity > 0 /\ mask
            THEN severity * strat_mult * StrokeHundredth ELSE 0
    IN  StrokeUnit + from_remaining
        + extra(short_severity, depth < -5 * YardUnit)
        + extra(long_severity, depth >= 5 * YardUnit)
        + extra(left_severity, lat < -side_thresh)
        + extra(right_severity, lat > side_thresh)

StrokesSample(draw, q) ==
    LET depth        == draw[1]
        lat          == draw[2]
        remaining    == Hypot(depth, lat)
        outcome_lie  == IF q.start_surface = <<>> THEN lit_fairway
                        ELSE q.start_surface
        is_close     == remaining <= 5 * YardUnit
        lie_for_this == IF is_close THEN lit_green ELSE outcome_lie
        from_remaining ==
            InterpExpectedStrokes(remaining, lie_for_this, q.sg_profile_factor)
        short_severity == TroubleSeverity(q.short_trouble_label)
        long_severity  == TroubleSeverity(q.long_trouble_label)
        left_severity  == TroubleSeverity(q.left_trouble_label)
        right_severity == TroubleSeverity(q.right_trouble_label)
        strat_mult     == StrategyPenaltyMultiplier(q.strategy_label)
        side_thresh    == SideThreshold(q.green_width)
        extra(severity, mask) ==
            IF severity > 0 /\ mask
            THEN severity * strat_mult * StrokeHundredth ELSE 0
    IN  StrokeUnit + from_remaining
        + extra(short_severity, depth < -5 * YardUnit)
        + extra(long_severity, depth > 5 * YardUnit)
        + extra(left_severity, lat < -side_thresh)
        + extra(right_severity, lat > side_thresh)

SigmaDepth(candidate, q) ==
    Max(YardUnit \div 10,
        (GetDispersionSigma(candidate.category) \div 10) * q.skill_factor)

SigmaLat(candidate, q) ==
    Max(YardUnit \div 10,
        (GetLateralSigma(candidate.category) \div 10) * q.skill_factor)

SimulationDraws(candidate, q) ==
    DrawSeqs(q.n_sim,
             NormalDraws(candidate.total - q.target_total,
                         SigmaDepth(candidate, q), 0, SigmaLat(candidate, q)))

\* variant: the baseline is taken from the target instead of the start
SimulateCandidateSg_BaselineFromTarget(candidate, q, draws) ==
    LET strokes_samples == [i \in 1..Len(draws) |-> StrokesSample(draws[i], q)]
        expected_after  == SumSeq(strokes_samples) \div Len(draws)
        baseline_from_here ==
            InterpExpectedStrokes(q.target_total, q.start_surface,
                                  q.sg_profile_factor)
    IN  [expected_after |-> expected_after,
         sg |-> baseline_from_here - expected_after]

SimulateCandidateSg(candidate, q, draws) ==
    LET strokes_samples == [i \in 1..Len(draws) |-> StrokesSample(draws[i], q)]
        expected_after  == SumSeq(strokes_samples) \div Len(draws)
        baseline_from_here ==
            InterpExpectedStrokes(q.start_distance_yards, q.start_surface,
                                  q.sg_profile_factor)
    IN  [expected_after |-> expected_after,
         sg |-> baseline_from_here - expected_after]

(***************************************************************************)
(* recommend_shots_with_sg                                                 *)
(***************************************************************************)
\* variant: no upper edge
InWindow_NoUpperEdge(c, target_total) ==
    ~(2 * c.total < target_total)

InWindow(c, target_total) ==
    /\ ~(2 * c.total < target_total)
    /\ ~(2 * c.total > 3 * target_total)

FilterCandidates(candidates, target_total) ==
    SelectSeq(candidates, LAMBDA c : InWindow(c, target_total))

ReasonParts(diff, sg, q) ==
    (IF Abs(diff) <= 5 * YardUnit THEN <<"matches closely">>
     ELSE IF diff < -5 * YardUnit THEN <<"a bit short">>
     ELSE <<"a bit past">>)
    \o (IF \E lbl \in {q.short_trouble_label, q.long_trouble_label,
                       q.left_trouble_label, q.right_trouble_label} :
               lbl # TroubleNone
        THEN <<"considers trouble">> ELSE <<>>)
    \o (IF sg > 15 * StrokeHundredth THEN <<"strong strokes gained">>
        ELSE IF sg > 5 * StrokeHundredth THEN <<"slightly positive">>
        ELSE IF sg < -15 * StrokeHundredth THEN <<"higher risk">>
        ELSE <<>>)

LegacyScore(c, target_total) ==
    -Abs(c.total - target_total) - GetDispersionSigma(c.category) \div 5

EvaluateCandidate(c, q, draws) ==
    LET diff == c.total - q.target_total
        sim  == SimulateCandidateSg(c, q, draws)
    IN  [club |-> c.club,
         shot_type |-> c.shot_type,
         trajectory |-> c.trajectory,
         category |-> c.category,
         carry |-> c.carry,
         total |-> c.total,
         diff |-> diff,
         score |-> LegacyScore(c, q.target_total),
         expected_strokes |-> sim.expected_after,
         sg |-> sim.sg,
         reason |-> ReasonParts(diff, sim.sg, q)]

(***************************************************************************)
(* list.sort(key=lambda x: (x["sg"], x["score"]), reverse=True): a stable  *)
(* sort, greatest key first, entries with equal keys in their old order.   *)
(***************************************************************************)
\* variant: equal sg is settled by the smaller distance error alone
SortKeyGreater_TieByDistance(a, b) ==
    \/ a.sg > b.sg
    \/ a.sg = b.sg /\ Abs(a.diff) < Abs(b.diff)

SortKeyGreater(a, b) ==
    \/ a.sg > b.sg
    \/ a.sg = b.sg /\ a.score > b.score

RECURSIVE InsertByKey(_, _)
InsertByKey(sorted, x) ==
    IF sorted = <<>> THEN <<x>>
    ELSE IF SortKeyGreater(x, Head(sorted)) THEN <<x>> \o sorted
    ELSE <<Head(sorted)>> \o InsertByKey(Tail(sorted), x)

\* variant: the entries stay in the order they were evaluated
SortReverse_InputOrder(entries) == entries

RECURSIVE SortReverse(_)
SortReverse(entries) ==
    IF entries = <<>> THEN <<>>
    ELSE InsertByKey(SortReverse(SubSeq(entries, 1, Len(entries) - 1)),
                     entries[Len(entries)])

(***************************************************************************)
(* evaluated[:top_n]                                                       *)
(***************************************************************************)
\* variant: the whole ranking is returned
SliceTo_Whole(s, n) == s

SliceTo(s, n) ==
    IF n >= 0 THEN SubSeq(s, 1, Min(n, Len(s)))
    ELSE SubSeq(s, 1, Max(0, Len(s) + n))

(***************************************************************************)
(* _simulate_green_hit_stats.  Probabilities are counted in 1/ProbUnit.    *)
(* The engine asks for 600 draws here; the model draws StatsSims.          *)
(***************************************************************************)
StatsSims == 2

ProbUnit == LcmUpTo(StatsSims)

CountOf(s, Test(_)) == Cardinality({i \in 1..Len(s) : Test(s[i])})

StatsDraws(candidate, target_total, skill_factor, n_sim) ==
    DrawSeqs(n_sim,
             NormalDraws(candidate.total - target_total,
                         (GetDispersionSigma(candidate.category) \div 10)
                             * skill_factor,
                         0,
                         (GetLateralSigma(candidate.category) \div 10)
                             * skill_factor))

SimulateGreenHitStats(green_width, draws) ==
    LET n         == Len(draws)
        share(k)  == k * (ProbUnit \div n)
        radial(p) == Hypot(p[1], p[2])
        within_5  == CountOf(draws, LAMBDA p : radial(p) <= 5 * YardUnit)
        within_10 == CountOf(draws, LAMBDA p : radial(p) <= 10 * YardUnit)
        on_green  ==
            IF green_width > 0
            THEN share(CountOf(draws,
                     LAMBDA p : /\ Abs(p[1]) <= 5 * YardUnit
                                /\ Abs(p[2]) <= green_width \div 2))
            ELSE 0
    IN  [p_within_5 |-> share(within_5),
         p_within_10 |-> share(within_10),
         p_on_green |-> on_green,
         avg_depth |-> SumSeq([i \in 1..n |-> draws[i][1]]) \div n,
         avg_lat |-> SumSeq([i \in 1..n |-> draws[i][2]]) \div n]

(***************************************************************************)
(* par3_strategy: the arguments it passes to recommend_shots_with_sg       *)
(***************************************************************************)
Par3Recommend(c) ==
    [fn |-> "recommend_shots_with_sg",
     target_total |-> c.hole_yards,
     candidates |-> c.candidates,
     short_trouble_label |-> c.short_trouble_label,
     long_trouble_label |-> c.long_trouble_label,
     left_trouble_label |-> c.left_trouble_label,
     right_trouble_label |-> c.right_trouble_label,
     green_firmness_label |-> FirmnessMedium,
     strategy_label |-> c.strategy_label,
     start_distance_yards |-> c.hole_yards,
     start_surface |-> lit_fairway,
     front_yards |-> 0,
     back_yards |-> 0,
     skill_factor |-> c.skill_factor,
     pin_lateral_offset |-> 0,
     green_width |-> c.green_width,
     n_sim |-> c.n_sim,
     top_n |-> 5,
     sg_profile_factor |-> c.sg_profile_factor]

\* The arguments of the recommend_shots_with_sg call in progress.
Query == IF call.fn = "par3_strategy" THEN Par3Recommend(call) ELSE call

(***************************************************************************)
(* Candidate lists the callers pass.  Yardages in 1/YardUnit yards.        *)
(***************************************************************************)
Tenths(t) == t * (YardUnit \div 10)

Shot(club, category, carry, total) ==
    [club |-> club, shot_type |-> "Full", trajectory |-> "Stock",
     category |-> category, carry |-> carry, total |-> total]

\* tests/test_recommendations.py: a compact bag around 150 yards
SimpleCandidates ==
    << Shot("8i", lit_short_iron, Tenths(1400), Tenths(1450)),
       Shot("7i", lit_mid_iron, Tenths(1500), Tenths(1550)),
       Shot("6i", lit_mid_iron, Tenths(1600), Tenths(1650)) >>

\* two clubs about as far from 150 yards, of different categories
NearCandidates ==
    << Shot("7i", lit_mid_iron, Tenths(1490), Tenths(1540)),
       Shot("8i", lit_short_iron, Tenths(1400), Tenths(1459)) >>

\* clubs on and just outside the 0.5 x and 1.5 x edges of a 150-yard window
EdgeCandidates ==
    << Shot("LW", lit_scoring_wedge, Tenths(750), Tenths(750)),
       Shot("LW", lit_scoring_wedge, Tenths(749), Tenths(749)),
       Shot("3W", lit_long, Tenths(2100), Tenths(2250)),
       Shot("Driver", lit_long, Tenths(2100), Tenths(2251)) >>

CandidateLists ==
    {SimpleCandidates, NearCandidates, EdgeCandidates, <<>>}

TargetYards == {150, 320}

MaxTopN == 3

TopNs == -1..MaxTopN

(***************************************************************************)
(* Situations the callers describe.  The default is the Quick-mode         *)
(* situation of the app; the model takes every situation that differs from *)
(* it in at most two fields.  Factors are in tenths.                       *)
(***************************************************************************)
DefaultSituation ==
    [short_trouble_label |-> TroubleNone,
     long_trouble_label |-> TroubleNone,
     left_trouble_label |-> TroubleNone,
     right_trouble_label |-> TroubleNone,
     strategy_label |-> STRATEGY_BALANCED,
     green_width |-> 0,
     start_surface |-> lit_fairway,
     sg_profile_factor |-> 10,
     skill_factor |-> 10]

SituationSpace ==
    [short_trouble_label : {TroubleNone, TroubleMild},
     long_trouble_label : {TroubleNone, TroubleMild, TroubleSevere},
     left_trouble_label : {TroubleNone, TroubleSevere},
     right_trouble_label : {TroubleNone, TroubleMild},
     strategy_label : {STRATEGY_BALANCED, STRATEGY_CONSERVATIVE,
                       STRATEGY_AGGRESSIVE},
     green_width : {0, 20 * YardUnit},
     start_surface : {lit_fairway, lit_rough},
     sg_profile_factor : {10, 13},
     skill_factor : {10, 0}]

Deviations(s) ==
    Cardinality({f \in DOMAIN s : s[f] # DefaultSituation[f]})

Situations == {s \in SituationSpace : Deviations(s) <= 2}

NearDefaultSituations == {s \in SituationSpace : Deviations(s) <= 1}

RecommendCall(candidates, yards, start_yards, n_sim, top_n, s) ==
    [fn |-> "recommend_shots_with_sg",
     target_total |-> yards * YardUnit,
     candidates |-> candidates,
     short_trouble_label |-> s.short_trouble_label,
     long_trouble_label |-> s.long_trouble_label,
     left_trouble_label |-> s.left_trouble_label,
     right_trouble_label |-> s.right_trouble_label,
     green_firmness_label |-> FirmnessMedium,
     strategy_label |-> s.strategy_label,
     start_distance_yards |-> start_yards * YardUnit,
     start_surface |-> s.start_surface,
     front_yards |-> 0,
     back_yards |-> 0,
     skill_factor |-> s.skill_factor,
     pin_lateral_offset |-> 0,
     green_width |-> s.green_width,
     n_sim |-> n_sim,
     top_n |-> top_n,
     sg_profile_factor |-> s.sg_profile_factor]

\* app.py passes the plays-like yardage as the target and the distance to the
\* pin as the start: PinYards is a pin 10 yards short of a 150-yard target.
PinYards == 140

RecommendCalls ==
    {RecommendCall(c, y, y, n, t, DefaultSituation) :
        c \in CandidateLists, y \in TargetYards, n \in 1..MaxSim, t \in TopNs}
    \cup {RecommendCall(NearCandidates, 150, 150, n, 5, s) :
             n \in 1..MaxSim, s \in Situations}
    \cup {RecommendCall(SimpleCandidates, 150, 150, n, 3, s) :
             n \in 1..MaxSim, s \in NearDefaultSituations}
    \cup {RecommendCall(NearCandidates, 150, PinYards, n, 5, s) :
             n \in 1..MaxSim, s \in NearDefaultSituations}

Par3Call(candidates, yards, n_sim, s) ==
    [fn |-> "par3_strategy",
     hole_yards |-> yards * YardUnit,
     candidates |-> candidates,
     skill_factor |-> s.skill_factor,
     green_width |-> s.green_width,
     short_trouble_label |-> s.short_trouble_label,
     long_trouble_label |-> s.long_trouble_label,
     left_trouble_label |-> s.left_trouble_label,
     right_trouble_label |-> s.right_trouble_label,
     strategy_label |-> s.strategy_label,
     sg_profile_factor |-> s.sg_profile_factor,
     n_sim |-> n_sim]

Par3Calls ==
    {Par3Call(c, y, n, s) :
        c \in CandidateLists \ {SimpleCandidates}, y \in TargetYards,
        n \in 1..MaxSim,
        s \in {DefaultSituation,
               [DefaultSituation EXCEPT !.green_width = 20 * YardUnit],
               [DefaultSituation EXCEPT !.skill_factor = 0],
               [DefaultSituation EXCEPT !.skill_factor = -10]}}

(***************************************************************************)
(* A run of the engine is one call of recommend_shots_with_sg or of        *)
(* par3_strategy.  pc: "called" -> "evaluate" (one step per candidate in   *)
(* the window) -> "ranked" -> "returned", or "raised" when an exception     *)
(* leaves the call.                                                        *)
(***************************************************************************)
Init ==
    /\ pc = "called"
    /\ call \in RecommendCalls \cup Par3Calls
    /\ ret = PyNone
    /\ filtered = <<>>
    /\ evaluated = <<>>
    /\ lastDraws = <<>>
    /\ ranked = <<>>
    /\ session = PyNone
    /\ engineCalls = <<>>

\* variant: the window is cut out of the caller's own list
RecommendFilter_InPlace ==
    /\ pc = "called"
    /\ filtered' = FilterCandidates(Query.candidates, Query.target_total)
    /\ call' = [call EXCEPT !.candidates = filtered']
    /\ pc' = "evaluate"
    /\ UNCHANGED <<ret, evaluated, lastDraws, ranked, appVars>>

\* lines 654-660: the distance window
RecommendFilter ==
    /\ pc = "called"
    /\ filtered' = FilterCandidates(Query.candidates, Query.target_total)
    /\ pc' = "evaluate"
    /\ UNCHANGED <<call, ret, evaluated, lastDraws, ranked, appVars>>

\* lines 663-729: one turn of the loop over the filtered candidates
RecommendEvaluate ==
    /\ pc = "evaluate"
    /\ Len(evaluated) < Len(filtered)
    /\ LET c == filtered[Len(evaluated) + 1]
       IN  \E draws \in SimulationDraws(c, Query) :
               /\ lastDraws' = draws
               /\ evaluated' =
                      Append(evaluated, EvaluateCandidate(c, Query, draws))
    /\ UNCHANGED <<pc, call, ret, filtered, ranked, appVars>>

\* lines 731-732: sort and truncate
RecommendReturn ==
    /\ pc = "evaluate"
    /\ Len(evaluated) = Len(filtered)
    /\ ranked' = SliceTo(SortReverse(evaluated), Query.top_n)
    /\ IF call.fn = "par3_strategy"
       THEN pc' = "ranked" /\ ret' = ret
       ELSE pc' = "returned"
            /\ ret' = SliceTo(SortReverse(evaluated), Query.top_n)
    /\ UNCHANGED <<call, filtered, evaluated, lastDraws, appVars>>

\* par3_strategy, lines 891-892: nothing ranked
Par3ReturnNone ==
    /\ pc = "ranked"
    /\ ranked = <<>>
    /\ ret' = [best |-> PyNone, alternatives |-> <<>>,
               hole_yards |-> call.hole_yards]
    /\ pc' = "returned"
    /\ UNCHANGED <<call, filtered, evaluated, lastDraws, ranked, appVars>>

\* par3_strategy, lines 894-907: the best entry with its green-hit stats
Par3ReturnBest ==
    /\ pc = "ranked"
    /\ ranked # <<>>
    /\ LET best == ranked[1]
       IN  \E draws \in StatsDraws(best, call.hole_yards, call.skill_factor,
                                   StatsSims) :
               /\ lastDraws' = draws
               /\ ret' = [best |-> best @@ SimulateGreenHitStats(
                                               call.green_width, draws),
                          alternatives |-> ranked,
                          hole_yards |-> call.hole_yards]
    /\ pc' = "returned"
    /\ UNCHANGED <<call, filtered, evaluated, ranked, appVars>>

\* par3_strategy, lines 895-898: np.random.normal raises ValueError for the
\* negative scale a negative skill_factor gives _simulate_green_hit_stats
Par3Raise ==
    /\ pc = "ranked"
    /\ ranked # <<>>
    /\ StatsDraws(ranked[1], call.hole_yards, call.skill_factor, StatsSims) = {}
    /\ ret' = ValueError
    /\ pc' = "raised"
    /\ UNCHANGED <<call, filtered, evaluated, lastDraws, ranked, appVars>>

Next ==
    \/ RecommendFilter
    \/ RecommendEvaluate
    \/ RecommendReturn
    \/ Par3ReturnNone
    \/ Par3ReturnBest
    \/ Par3Raise

Spec == Init /\ [][Next]_vars


(***************************************************************************)
(* Properties of recommend_shots_with_sg and par3_strategy                 *)
(***************************************************************************)
RecommendReturned == pc = "returned" /\ call.fn = "recommend_shots_with_sg"

Par3Returned == pc = "returned" /\ call.fn = "par3_strategy"

\* 0.5 x target <= total <= 1.5 x target, both edges included
InclusiveWindow(c) ==
    /\ 2 * c.total >= Query.target_total
    /\ 2 * c.total <= 3 * Query.target_total

\* k: how many candidates of the call lie in the window
WindowCount ==
    Cardinality({i \in DOMAIN Query.candidates :
                    InclusiveWindow(Query.candidates[i])})

DistanceError(e) == Abs(e.total - Query.target_total)

\* C1: the list recommend_shots_with_sg returns is ordered so that each
\* entry's sg is greater than or equal to the sg of the entry after it.
C1_SortedBySg ==
    RecommendReturned =>
        \A i \in 1..(Len(ret) - 1) : ret[i].sg >= ret[i + 1].sg

\* three entries, strictly ordered, in the reverse of the evaluation order
C1_Witness ==
    /\ RecommendReturned
    /\ Len(ret) = 3
    /\ ret[1].sg > ret[2].sg
    /\ ret[2].sg > ret[3].sg
    /\ ret[1] = evaluated[3]
    /\ ret[3] = evaluated[1]

\* C2 (as stated): of two returned entries with equal sg, the one with the
\* smaller absolute distance error |total - target_total| is ahead, whatever
\* the club categories.
C2_TieByDistanceError ==
    RecommendReturned =>
        \A i, j \in 1..Len(ret) :
            (i < j /\ ret[i].sg = ret[j].sg) =>
                DistanceError(ret[i]) <= DistanceError(ret[j])

\* C2 (amended): of two returned entries with equal sg, the one ahead has the
\* greater or equal score -|total - target_total| - 0.2 x depth sigma of its
\* category; so the smaller distance error is ahead when the two categories
\* have the same depth sigma.
C2_TieByLegacyScore ==
    RecommendReturned =>
        \A i, j \in 1..Len(ret) :
            (i < j /\ ret[i].sg = ret[j].sg) =>
                /\ LegacyScore(ret[i], Query.target_total)
                       >= LegacyScore(ret[j], Query.target_total)
                /\ (GetDispersionSigma(ret[i].category)
                        = GetDispersionSigma(ret[j].category))
                       => DistanceError(ret[i]) <= DistanceError(ret[j])

\* equal sg, and the entry ahead is the one farther from the target
C2_Witness ==
    /\ RecommendReturned
    /\ \E i, j \in 1..Len(ret) :
          /\ i < j
          /\ ret[i].sg = ret[j].sg
          /\ DistanceError(ret[i]) > DistanceError(ret[j])
          /\ LegacyScore(ret[i], Query.target_total)
                 > LegacyScore(ret[j], Query.target_total)

\* C3: for top_n >= 0 the call returns exactly min(top_n, k) entries, k the
\* number of candidates in the distance window; never more than top_n, and
\* they are the first entries of the ranking of all k.
C3_TopNPrefix ==
    (RecommendReturned /\ Query.top_n >= 0) =>
        /\ Len(evaluated) = WindowCount
        /\ Len(ret) = Min(Query.top_n, WindowCount)
        /\ Len(ret) <= Query.top_n
        /\ \A i \in 1..Len(ret) : ret[i] = SortReverse(evaluated)[i]

\* a ranking of k entries cut to a shorter, non-empty list
C3_Witness ==
    /\ RecommendReturned
    /\ Query.top_n >= 1
    /\ Query.top_n < WindowCount
    /\ Len(ret) = Query.top_n
    /\ ret[1] # evaluated[1]

\* C4: every returned entry has 0.5 x target <= total <= 1.5 x target, edges
\* included; when no candidate is in the window (or the list is empty) the
\* call returns an empty list, and par3_strategy returns best = None with
\* empty alternatives.
C4_WindowOrEmpty ==
    /\ (pc # "called") =>
          /\ Len(filtered) = WindowCount
          /\ \A i \in 1..Len(filtered) : InclusiveWindow(filtered[i])
    /\ RecommendReturned =>
          /\ \A i \in 1..Len(ret) : InclusiveWindow(ret[i])
          /\ (WindowCount = 0) => (ret = <<>>)
    /\ Par3Returned =>
          /\ \A i \in 1..Len(ret.alternatives) :
                InclusiveWindow(ret.alternatives[i])
          /\ (WindowCount = 0) =>
                (ret.best = PyNone /\ ret.alternatives = <<>>)

\* a club on each edge of the window is returned, a club outside is not
C4_Witness ==
    /\ RecommendReturned
    /\ \E i \in 1..Len(ret) : 2 * ret[i].total = Query.target_total
    /\ \E i \in 1..Len(ret) : 2 * ret[i].total = 3 * Query.target_total
    /\ Len(ret) < Len(Query.candidates)

\* the baseline of the call: expected strokes from the start of the shot
Baseline ==
    InterpExpectedStrokes(Query.start_distance_yards, Query.start_surface,
                          Query.sg_profile_factor)

\* C5: every returned entry has sg = baseline - expected_strokes, the baseline
\* being the expected strokes from (start_distance_yards, start_surface,
\* profile factor), one value for the call; so sg + expected_strokes is the
\* same for all entries of a result.
C5_SgIsBaselineMinusExpected ==
    RecommendReturned =>
        /\ \A i \in 1..Len(ret) :
              ret[i].sg = Baseline - ret[i].expected_strokes
        /\ \A i, j \in 1..Len(ret) :
              ret[i].sg + ret[i].expected_strokes
                  = ret[j].sg + ret[j].expected_strokes

\* two entries with different expected strokes, start and target apart
C5_Witness ==
    /\ RecommendReturned
    /\ Query.start_distance_yards # Query.target_total
    /\ Len(ret) >= 2
    /\ ret[1].expected_strokes # ret[2].expected_strokes
    /\ ret[1].sg = Baseline - ret[1].expected_strokes

\* The candidate evaluated last, under a query with long trouble 'Severe',
\* and the same candidate with the same draws under long trouble 'None'.
LastCandidate == filtered[Len(evaluated)]

SevereLongCase ==
    /\ pc = "evaluate"
    /\ Len(evaluated) > 0
    /\ Query.long_trouble_label = TroubleSevere
    /\ LastCandidate.total > Query.target_total

SgUnderSevere == evaluated[Len(evaluated)].sg

SgUnderNone ==
    SimulateCandidateSg(LastCandidate,
                        [Query EXCEPT !.long_trouble_label = TroubleNone],
                        lastDraws).sg

LongDraws ==
    Cardinality({i \in DOMAIN lastDraws : lastDraws[i][1] > 5 * YardUnit})

\* C6 (as stated): a candidate whose total exceeds the target has a strictly
\* lower sg under long trouble 'Severe' than under 'None', for every outcome
\* of the draws and every n_sim >= 1.
C6_SevereStrictlyLower ==
    SevereLongCase => SgUnderSevere < SgUnderNone

\* C6 (amended): with the same draws, sg under 'Severe' is never higher than
\* under 'None'; it is lower by the strategy multiplier x 1.0 x the share of
\* draws more than 5 yards long, hence strictly lower exactly when at least
\* one draw is more than 5 yards long.
C6_SevereLowerByLongShare ==
    SevereLongCase =>
        /\ SgUnderSevere <= SgUnderNone
        /\ (SgUnderSevere < SgUnderNone) <=> (LongDraws > 0)
        /\ SgUnderNone - SgUnderSevere
               = (TroubleSeverity(TroubleSevere)
                     * StrategyPenaltyMultiplier(Query.strategy_label)
                     * StrokeHundredth * LongDraws) \div Query.n_sim

\* some draws of the long candidate are long, some are not
C6_Witness ==
    /\ SevereLongCase
    /\ LongDraws > 0
    /\ LongDraws < Len(lastDraws)
    /\ SgUnderSevere < SgUnderNone


(***************************************************************************)
(* PLAYS-LIKE YARDAGE (app.py, Play tab)                                   *)
(*                                                                         *)
(* The Suggest Shots handler lower-cases the wind and lie labels, runs the *)
(* pin yardage through adjust_for_wind, apply_elevation and apply_lie, and *)
(* then biases the result by the player's usual miss.                      *)
(***************************************************************************)
TendencyNeutral == "Neutral"

TendencyShort == "Usually Short"

TendencyLong == "Usually Long"

Tendencies == {TendencyNeutral, TendencyShort, TendencyLong}

\* variant: a neutral tendency is biased like a short one
TendencyBias_NeutralAddsThree(target_final, tendency) ==
    IF tendency = TendencyShort THEN target_final + 3 * YardUnit
    ELSE IF tendency = TendencyLong THEN target_final - 3 * YardUnit
    ELSE target_final + 3 * YardUnit

TendencyBias(target_final, tendency) ==
    IF tendency = TendencyShort THEN target_final + 3 * YardUnit
    ELSE IF tendency = TendencyLong THEN target_final - 3 * YardUnit
    ELSE target_final

PlaysLike(target_pin, wind_dir_label, wind_strength_label, elevation_label, lie_label, tendency) ==
    LET wind_dir          == Lower(wind_dir_label)
        wind_strength     == Lower(wind_strength_label)
        lie               == Lower(lie_label)
        target_after_wind == AdjustForWind(target_pin, wind_dir, wind_strength)
        target_after_elev == ApplyElevation(target_after_wind, elevation_label)
        target_final      == ApplyLie(target_after_elev, lie)
    IN  TendencyBias(target_final, tendency)

PlaysLikeCall(d, wd, ws, el, ll, t) ==
    [fn |-> "plays_like", target_pin |-> d, wind_dir_label |-> wd,
     wind_strength_label |-> ws, elevation_label |-> el, lie_label |-> ll,
     tendency |-> t]

\* what the widgets offer
WidgetWindDirs == {WindNone, WindInto, WindDown, WindCross}

WidgetWindStrengths == {WindNone, StrengthLight, StrengthMedium, StrengthHeavy}

WidgetElevations ==
    {Flat, SlightUphill, ModerateUphill, SlightDownhill, ModerateDownhill}

WidgetLies == {LieGood, LieOk, LieBad}

\* every neutral situation at every distance, every situation at three
PlaysLikeCalls ==
    {PlaysLikeCall(d, WindNone, WindNone, Flat, LieGood, t) :
        d \in Distances, t \in Tendencies}
    \cup {PlaysLikeCall(y * YardUnit, wd, ws, el, ll, t) :
             y \in {100, 150, 200}, wd \in WidgetWindDirs,
             ws \in WidgetWindStrengths, el \in WidgetElevations,
             ll \in WidgetLies, t \in Tendencies}

InitPlaysLike ==
    /\ pc = "called"
    /\ call \in PlaysLikeCalls
    /\ ret = 0
    /\ filtered = <<>>
    /\ evaluated = <<>>
    /\ lastDraws = <<>>
    /\ ranked = <<>>
    /\ session = PyNone
    /\ engineCalls = <<>>

SuggestShotsPlaysLike ==
    /\ pc = "called"
    /\ call.fn = "plays_like"
    /\ ret' = PlaysLike(call.target_pin, call.wind_dir_label,
                        call.wind_strength_label, call.elevation_label,
                        call.lie_label, call.tendency)
    /\ pc' = "returned"
    /\ UNCHANGED <<call, recVars, appVars>>

NextPlaysLike == SuggestShotsPlaysLike

SpecPlaysLike == InitPlaysLike /\ [][NextPlaysLike]_vars

PlaysLikeReturned == pc = "returned" /\ call.fn = "plays_like"

NeutralPlaysLike ==
    /\ PlaysLikeReturned
    /\ call.wind_dir_label = WindNone
    /\ call.wind_strength_label = WindNone
    /\ call.elevation_label = Flat
    /\ call.lie_label = LieGood
    /\ call.tendency = TendencyNeutral

\* C11: with neutral inputs every adjustment is the identity: for every
\* distance d, apply_lie(apply_elevation(adjust_for_wind(d, 'none', 'none'),
\* 'Flat'), 'Good') = d, and the plays-like yardage composed from them with
\* tendency 'Neutral' equals the raw yardage.
C11_NeutralIsIdentity ==
    NeutralPlaysLike =>
        /\ ApplyLie(ApplyElevation(
               AdjustForWind(call.target_pin, lit_none, lit_none), Flat),
               LieGood) = call.target_pin
        /\ ret = call.target_pin

C11_Witness ==
    /\ NeutralPlaysLike
    /\ call.target_pin = 150 * YardUnit
    /\ ret = 150 * YardUnit


(***************************************************************************)
(* Labels outside the vocabulary (checked under SpecAdjust)                *)
(***************************************************************************)
Normal(label) == Strip(Lower(label))

DocWindDirs == {lit_none, lit_into, lit_down, lit_cross}

DocWindStrengths == {lit_none, lit_light, lit_medium, lit_heavy}

DocElevations ==
    {Lower(l) : l \in {Flat, SlightUphill, ModerateUphill, SlightDownhill,
                       ModerateDownhill}}

DocLies == {lit_good, lit_ok, lit_bad}

ElevationPrefixes ==
    {lit_slight_up, lit_moderate_up, lit_slight_down, lit_moderate_down}

\* C12 (as stated): the adjusters return a value for every string label, and
\* every label outside the vocabulary (direction none/into/down/cross,
\* strength none/light/medium/heavy, the five elevation categories, lie
\* good/ok/bad) gives the neutral result: the distance unchanged.
C12_UnknownLabelIsNeutral ==
    /\ (/\ WindReturned
        /\ \/ Normal(call.wind_dir) \notin DocWindDirs
           \/ Normal(call.label) \notin DocWindStrengths) => ret = call.target
    /\ (ElevationReturned /\ Normal(call.label) \notin DocElevations)
           => ret = call.target
    /\ (LieReturned /\ Normal(call.label) \notin DocLies)
           => ret = call.target

\* C12 (amended): the adjusters return a value for every string label; the
\* distance is unchanged when the direction, lower-cased, is not into, down
\* or cross, or the strength, lower-cased and stripped, is not light, medium
\* or heavy; when the elevation label, lower-cased and stripped, starts with
\* none of 'slight up', 'moderate up', 'slight down', 'moderate down'; and
\* when the lie, lower-cased and stripped, is none of good, ok, okay, bad.
\* A label that only starts with an elevation prefix is adjusted like the
\* category, and 'okay' plays like 'ok'.
C12_UnmatchedLabelIsNeutral ==
    /\ (/\ WindReturned
        /\ \/ Lower(call.wind_dir) \notin {lit_into, lit_down, lit_cross}
           \/ Normal(call.label) \notin {lit_light, lit_medium, lit_heavy})
           => ret = call.target
    /\ ElevationReturned =>
          /\ (\A p \in ElevationPrefixes : ~StartsWith(Normal(call.label), p))
                 => ret = call.target
          /\ StartsWith(Normal(call.label), lit_slight_up)
                 => ret = call.target + 5 * YardUnit
    /\ LieReturned =>
          /\ Normal(call.label) \notin {lit_good, lit_ok, lit_okay, lit_bad}
                 => ret = call.target
          /\ Normal(call.label) = lit_okay
                 => ret = (call.target \div 100) * 105

\* a lie outside the table, returned unchanged
C12_Witness ==
    /\ LieReturned
    /\ call.label = LiePlugged
    /\ call.target = 150 * YardUnit
    /\ ret = call.target


(***************************************************************************)
(* EXPECTED STROKES LOOKUP                                                 *)
(*                                                                         *)
(* _interp_expected_strokes is a pure function.  A run is one call: the    *)
(* initial state holds the arguments, the action computes the value.       *)
(***************************************************************************)
MaxStrokeYards == 400

\* whole yards from 5 short of the hole to beyond every table
StrokeDistances == {y * YardUnit : y \in -5..MaxStrokeYards}

LieWater == <<"w", "a", "t", "e", "r">>

StrokeLies ==
    {lit_fairway, lit_rough, lit_sand, lit_recovery, lit_green,
     Upper(lit_sand), LieWater, <<>>}

\* profile factors in tenths: 0.5, 0.8, 1.0, 1.3
ProfileFactors == {5, 8, 10, 13}

InterpCalls ==
    {[fn |-> "_interp_expected_strokes", distance_yards |-> d,
      lie_type |-> l, profile_factor |-> f] :
        d \in StrokeDistances, l \in StrokeLies, f \in ProfileFactors}

InitStrokes ==
    /\ pc = "called"
    /\ call \in InterpCalls
    /\ ret = 0
    /\ filtered = <<>>
    /\ evaluated = <<>>
    /\ lastDraws = <<>>
    /\ ranked = <<>>
    /\ session = PyNone
    /\ engineCalls = <<>>

CallInterpExpectedStrokes ==
    /\ pc = "called"
    /\ call.fn = "_interp_expected_strokes"
    /\ ret' = InterpExpectedStrokes(call.distance_yards, call.lie_type,
                                    call.profile_factor)
    /\ pc' = "returned"
    /\ UNCHANGED <<call, recVars, appVars>>

NextStrokes == CallInterpExpectedStrokes

SpecStrokes == InitStrokes /\ [][NextStrokes]_vars

InterpReturned == pc = "returned" /\ call.fn = "_interp_expected_strokes"

\* the value of the lookup for the call's distance and factor on another lie
OnLie(lie) ==
    InterpExpectedStrokes(call.distance_yards, lie, call.profile_factor)

\* ... and for the call's distance and lie with another factor
WithFactor(f) ==
    InterpExpectedStrokes(call.distance_yards, call.lie_type, f)


\* C13: for every surface and every fixed profile factor the lookup is
\* non-decreasing in distance: d1 <= d2 implies expected_strokes(d1) <=
\* expected_strokes(d2), below the first anchor and above the last included.
C13_MonotoneInDistance ==
    InterpReturned =>
        \A d2 \in StrokeDistances :
            (call.distance_yards <= d2) =>
                ret <= InterpExpectedStrokes(d2, call.lie_type,
                                             call.profile_factor)

\* 150 yards of fairway take fewer strokes than 250
C13_Witness ==
    /\ InterpReturned
    /\ call.lie_type = lit_fairway
    /\ call.profile_factor = 10
    /\ call.distance_yards = 150 * YardUnit
    /\ ret < InterpExpectedStrokes(250 * YardUnit, lit_fairway, 10)
    /\ ret > InterpExpectedStrokes(50 * YardUnit, lit_fairway, 10)

\* C14: for every distance and every fixed profile factor, expected strokes
\* from the fairway <= from the rough <= from sand.
C14_FairwayRoughSand ==
    (InterpReturned /\ call.lie_type = lit_fairway) =>
        /\ ret <= OnLie(lit_rough)
        /\ OnLie(lit_rough) <= OnLie(lit_sand)

C14_Witness ==
    /\ InterpReturned
    /\ call.lie_type = lit_fairway
    /\ call.distance_yards = 150 * YardUnit
    /\ ret < OnLie(lit_rough)
    /\ OnLie(lit_rough) < OnLie(lit_sand)

\* C15 (as stated): for every fixed distance and profile factor, expected
\* strokes respect green < fairway <= rough < sand < recovery.
C15_SeverityOrdering ==
    (InterpReturned /\ call.lie_type = lit_green) =>
        /\ ret < OnLie(lit_fairway)
        /\ OnLie(lit_fairway) <= OnLie(lit_rough)
        /\ OnLie(lit_rough) < OnLie(lit_sand)
        /\ OnLie(lit_sand) < OnLie(lit_recovery)

\* C16: for every distance d and surface s, expected_strokes(d, s, 0.8) <
\* expected_strokes(d, s, 1.0) < expected_strokes(d, s, 1.3).
C16_HandicapScaling ==
    (InterpReturned /\ call.profile_factor = 8) =>
        /\ ret < WithFactor(10)
        /\ WithFactor(10) < WithFactor(13)

C16_Witness ==
    /\ InterpReturned
    /\ call.profile_factor = 8
    /\ call.lie_type = lit_fairway
    /\ call.distance_yards = 150 * YardUnit
    /\ ret < WithFactor(10)
    /\ WithFactor(10) < WithFactor(13)

TableOfCall ==
    ExpectedStrokesByLie(
        Lower(IF call.lie_type = <<>> THEN lit_fairway ELSE call.lie_type))

BaseOfCall == ret \div (Max(8, call.profile_factor) * LcmUpTo(MaxSim))

\* C18: the lookup returns a value for every distance: a negative distance
\* gives the first anchor's strokes, a distance beyond the last anchor the
\* last anchor's, a distance equal to an anchor that anchor's, and between
\* two adjacent anchors the linear interpolation of the two.
C18_ClampAndInterpolate ==
    InterpReturned =>
        LET t == TableOfCall
            y == call.distance_yards \div YardUnit
        IN  /\ call.distance_yards = y * YardUnit
            /\ ret = BaseOfCall * Max(8, call.profile_factor)
                         * LcmUpTo(MaxSim)
            /\ (y <= 0) => BaseOfCall = t[1][2] * SegmentLcm
            /\ (y >= t[Len(t)][1]) => BaseOfCall = t[Len(t)][2] * SegmentLcm
            /\ \A i \in 1..Len(t) :
                  (y = t[i][1]) => BaseOfCall = t[i][2] * SegmentLcm
            /\ \A i \in 1..(Len(t) - 1) :
                  (t[i][1] <= y /\ y <= t[i + 1][1]) =>
                      (BaseOfCall - t[i][2] * SegmentLcm)
                              * (t[i + 1][1] - t[i][1])
                          = (y - t[i][1]) * (t[i + 1][2] - t[i][2])
                                * SegmentLcm

\* 150 yards of fairway: three quarters of the way from 2.55 to 2.80
C18_Witness ==
    /\ InterpReturned
    /\ call.lie_type = lit_fairway
    /\ call.profile_factor = 10
    /\ call.distance_yards = 150 * YardUnit
    /\ 4 * BaseOfCall = (4 * 255 + 3 * 25) * SegmentLcm


(***************************************************************************)
(* BAG AND SHOT GENERATION                                                 *)
(*                                                                         *)
(* Scaled values are counted in 1/PowUnit of their base unit.  The power   *)
(* factor ** 1.03 is computed as factor * exp(0.03 * ln(factor)), with     *)
(* ln(f) = 2 atanh((f - 1) / (f + 1)) summed to the seventh power and exp  *)
(* to the second: within 4/PowUnit of the float value for driver speeds    *)
(* from 40 to 160 mph.  Python gives 0.0 ** 1.03 = 0.0, and a complex      *)
(* number for a negative base: PyComplex stands for such a value.          *)
(***************************************************************************)
PyComplex == [py |-> "complex"]

BASELINE_DRIVER_SPEED == 100

PowUnit == 100 * 100

Pow103(driver_speed_mph) ==
    IF driver_speed_mph = 0 THEN 0
    ELSE LET u  == ((driver_speed_mph - BASELINE_DRIVER_SPEED) * PowUnit)
                       \div (driver_speed_mph + BASELINE_DRIVER_SPEED)
             u2 == (u * u) \div PowUnit
             u3 == (u2 * u) \div PowUnit
             u5 == (u3 * u2) \div PowUnit
             u7 == (u5 * u2) \div PowUnit
             ln == 2 * (u + u3 \div 3 + u5 \div 5 + u7 \div 7)
             e  == (3 * ln) \div 100
             ex == PowUnit + e + (e * e) \div (2 * PowUnit)
         IN  (driver_speed_mph * ex) \div BASELINE_DRIVER_SPEED

\* _scale_value: base_value * (driver_speed_mph / 100) ** 1.03
ScaleValue(base_value, driver_speed_mph) ==
    IF driver_speed_mph < 0 THEN PyComplex
    ELSE base_value * Pow103(driver_speed_mph)

FULL_WEDGE_CARRIES ==
    ("PW" :> 121) @@ ("GW" :> 107) @@ ("SW" :> 92) @@ ("LW" :> 78)

\* club, ball speed, launch (tenths of a degree), spin, carry, total
FULL_BAG_BASE ==
    << <<"Driver", 148, 130, 2500, 233, 253>>,
       <<"3W", 140, 145, 3300, 216, 233>>,
       <<"3H", 135, 160, 3900, 202, 220>>,
       <<"4i", 128, 145, 4600, 182, 194>>,
       <<"5i", 122, 155, 5000, 172, 185>>,
       <<"6i", 116, 170, 5400, 162, 172>>,
       <<"7i", 110, 185, 6200, 151, 161>>,
       <<"8i", 104, 205, 7000, 139, 149>>,
       <<"9i", 98, 230, 7800, 127, 137>>,
       <<"PW", 92, 280, 8500, 118, 124>>,
       <<"GW", 86, 300, 9000, 104, 110>>,
       <<"SW", 81, 320, 9500, 89, 95>>,
       <<"LW", 75, 340, 10500, 75, 81>> >>

\* shot-type multipliers, in hundredths
SHOT_MULTIPLIERS ==
    ("Full" :> 100) @@ ("Choke-Down" :> 94) @@ ("3/4" :> 80)
        @@ ("1/2" :> 60) @@ ("1/4" :> 40)

\* WEDGE_PROFILES[(club, shot_type)]["carry_mult"], in hundredths
WEDGE_PROFILES ==
    (<<"PW", "Full">> :> 100) @@ (<<"PW", "Choke-Down">> :> 94)
        @@ (<<"PW", "3/4">> :> 82) @@ (<<"PW", "1/2">> :> 62)
        @@ (<<"PW", "1/4">> :> 42)
        @@ (<<"GW", "Full">> :> 100) @@ (<<"GW", "Choke-Down">> :> 94)
        @@ (<<"GW", "3/4">> :> 80) @@ (<<"GW", "1/2">> :> 60)
        @@ (<<"GW", "1/4">> :> 40)
        @@ (<<"SW", "Full">> :> 100) @@ (<<"SW", "Choke-Down">> :> 94)
        @@ (<<"SW", "3/4">> :> 80) @@ (<<"SW", "1/2">> :> 60)
        @@ (<<"SW", "1/4">> :> 40)
        @@ (<<"LW", "Full">> :> 100) @@ (<<"LW", "Choke-Down">> :> 92)
        @@ (<<"LW", "3/4">> :> 78) @@ (<<"LW", "1/2">> :> 58)
        @@ (<<"LW", "1/4">> :> 38)

\* club, shot type, trajectory
SCORING_DEFS ==
    << <<"PW", "Full", "Medium-High">>, <<"PW", "Choke-Down", "Medium">>,
       <<"PW", "3/4", "Medium">>, <<"SW", "Full", "High">>,
       <<"LW", "Full", "High">>, <<"SW", "3/4", "Medium-High">>,
       <<"PW", "1/2", "Medium-Low">>, <<"LW", "3/4", "Medium">>,
       <<"SW", "1/2", "Medium-Low">>, <<"PW", "1/4", "Low">>,
       <<"LW", "1/2", "Medium-Low">>, <<"GW", "1/4", "Low">>,
       <<"SW", "1/4", "Low">>, <<"LW", "1/4", "Low">>,
       <<"GW", "Full", "Medium-High">>, <<"GW", "Choke-Down", "Medium">>,
       <<"GW", "3/4", "Medium">>, <<"GW", "1/2", "Medium-Low">> >>


lit_soft == <<"s", "o", "f", "t">>

lit_firm == <<"f", "i", "r", "m">>

\* a scaled yardage (1/PowUnit yards) in 1/YardUnit yards
YardsOf(scaled) == scaled * (YardUnit \div PowUnit)

(***************************************************************************)
(* _estimate_roll_from_spin: roll in 1/YardUnit yards; base_roll in whole  *)
(* yards, the multipliers in tenths, spin_ratio in 1/PowUnit.              *)
(***************************************************************************)
EstimateRollFromSpin(base_roll, spin_rpm, green_firmness_label, category) ==
    LET firmness   == Lower(IF green_firmness_label = <<>>
                            THEN FirmnessMedium ELSE green_firmness_label)
        cat        == Lower(category)
        spin_ratio == Max(PowUnit \div 2,
                          Min((spin_rpm * PowUnit) \div 5500,
                              (18 * PowUnit) \div 10))
        firm_mult  == IF firmness = lit_soft THEN 6
                      ELSE IF firmness = lit_firm THEN 14 ELSE 10
        cat_mult   == IF cat = lit_scoring_wedge THEN 5
                      ELSE IF cat = lit_short_iron THEN 8
                      ELSE IF cat = lit_mid_iron THEN 10 ELSE 13
        roll       == (base_roll * firm_mult * cat_mult * PowUnit)
                          \div spin_ratio
    IN  Max(0, roll) * (YardUnit \div 100)

\* variant: the roll is taken off the carry
FullBagRow_RollSubtracted(row, driver_speed_mph, green_firmness_label) ==
    LET club         == row[1]
        cat          == ClubCategory(club)
        bs_scaled    == ScaleValue(row[2], driver_speed_mph)
        carry_scaled == ScaleValue(row[5], driver_speed_mph)
        base_roll    == Max(0, row[6] - row[5])
        roll_adj     == EstimateRollFromSpin(base_roll, row[4],
                                             green_firmness_label, cat)
        total_scaled == IF driver_speed_mph < 0 THEN PyComplex
                        ELSE YardsOf(carry_scaled) - roll_adj
    IN  [Club |-> club,
         BallSpeed |-> bs_scaled,
         Launch |-> row[3],
         Spin |-> row[4],
         Carry |-> IF driver_speed_mph < 0 THEN PyComplex
                   ELSE YardsOf(carry_scaled),
         Total |-> total_scaled]

\* _build_full_bag, one turn of the loop.  A complex carry plus a float roll
\* is complex.
FullBagRow(row, driver_speed_mph, green_firmness_label) ==
    LET club         == row[1]
        cat          == ClubCategory(club)
        bs_scaled    == ScaleValue(row[2], driver_speed_mph)
        carry_scaled == ScaleValue(row[5], driver_speed_mph)
        base_roll    == Max(0, row[6] - row[5])
        roll_adj     == EstimateRollFromSpin(base_roll, row[4],
                                             green_firmness_label, cat)
        total_scaled == IF driver_speed_mph < 0 THEN PyComplex
                        ELSE YardsOf(carry_scaled) + roll_adj
    IN  [Club |-> club,
         BallSpeed |-> bs_scaled,
         Launch |-> row[3],
         Spin |-> row[4],
         Carry |-> IF driver_speed_mph < 0 THEN PyComplex
                   ELSE YardsOf(carry_scaled),
         Total |-> total_scaled]

BuildFullBag(driver_speed_mph, green_firmness_label) ==
    [i \in 1..Len(FULL_BAG_BASE) |->
        FullBagRow(FULL_BAG_BASE[i], driver_speed_mph, green_firmness_label)]

\* variant: every wedge uses the generic shot-type multipliers
ScoringShot_GenericMultiplier(def, driver_speed_mph) ==
    LET club            == def[1]
        shot_type       == def[2]
        base_full_carry == ScaleValue(FULL_WEDGE_CARRIES[club],
                                      driver_speed_mph)
        mult            == IF shot_type \in DOMAIN SHOT_MULTIPLIERS
                           THEN SHOT_MULTIPLIERS[shot_type] ELSE 100
        carry           == IF driver_speed_mph < 0 THEN PyComplex
                           ELSE YardsOf((base_full_carry * mult) \div 100)
        total           == carry
    IN  [club |-> club,
         shot_type |-> shot_type,
         trajectory |-> def[3],
         carry |-> carry,
         total |-> total,
         category |-> ClubCategory(club)]

\* _build_scoring_shots, one turn of the loop.  A complex carry times a float
\* multiplier is complex.
ScoringShot(def, driver_speed_mph) ==
    LET club            == def[1]
        shot_type       == def[2]
        base_full_carry == ScaleValue(FULL_WEDGE_CARRIES[club],
                                      driver_speed_mph)
        mult            == IF <<club, shot_type>> \in DOMAIN WEDGE_PROFILES
                           THEN WEDGE_PROFILES[<<club, shot_type>>]
                           ELSE IF shot_type \in DOMAIN SHOT_MULTIPLIERS
                           THEN SHOT_MULTIPLIERS[shot_type] ELSE 100
        carry           == IF driver_speed_mph < 0 THEN PyComplex
                           ELSE YardsOf((base_full_carry * mult) \div 100)
        total           == carry
    IN  [club |-> club,
         shot_type |-> shot_type,
         trajectory |-> def[3],
         carry |-> carry,
         total |-> total,
         category |-> ClubCategory(club)]

BuildScoringShots(driver_speed_mph) ==
    [i \in 1..Len(SCORING_DEFS) |->
        ScoringShot(SCORING_DEFS[i], driver_speed_mph)]

\* build_all_candidate_shots: (all_shots, scoring_shots, full_bag)
BuildAllCandidateShots(driver_speed_mph) ==
    LET full_bag      == BuildFullBag(driver_speed_mph, FirmnessMedium)
        scoring_shots == BuildScoringShots(driver_speed_mph)
        wedge_clubs   == {"PW", "GW", "SW", "LW"}
        kept          == SelectSeq(full_bag,
                                   LAMBDA row : row.Club \notin wedge_clubs)
        from_bag      == [i \in 1..Len(kept) |->
                             [club |-> kept[i].Club,
                              shot_type |-> "Full",
                              trajectory |-> "Stock",
                              category |-> ClubCategory(kept[i].Club),
                              carry |-> kept[i].Carry,
                              total |-> kept[i].Total]]
    IN  [all_shots |-> from_bag \o scoring_shots,
         scoring_shots |-> scoring_shots,
         full_bag |-> full_bag]

(***************************************************************************)
(* A run is one call of build_all_candidate_shots with a driver speed in   *)
(* whole mph: the speeds of a golfer, zero, and two negative speeds.       *)
(***************************************************************************)
MaxSpeed == 160

DriverSpeeds == {-50, -1, 0} \cup (40..MaxSpeed)

InitBag ==
    /\ pc = "called"
    /\ call \in {[fn |-> "build_all_candidate_shots", driver_speed_mph |-> sp] :
                    sp \in DriverSpeeds}
    /\ ret = PyNone
    /\ filtered = <<>>
    /\ evaluated = <<>>
    /\ lastDraws = <<>>
    /\ ranked = <<>>
    /\ session = PyNone
    /\ engineCalls = <<>>

CallBuildAllCandidateShots ==
    /\ pc = "called"
    /\ call.fn = "build_all_candidate_shots"
    /\ ret' = BuildAllCandidateShots(call.driver_speed_mph)
    /\ pc' = "returned"
    /\ UNCHANGED <<call, recVars, appVars>>

NextBag == CallBuildAllCandidateShots

SpecBag == InitBag /\ [][NextBag]_vars

BagReturned == pc = "returned" /\ call.fn = "build_all_candidate_shots"

\* the club -> category mapping of the claim, written out
CategoryOfClub ==
    [c \in {"PW", "GW", "SW", "LW"} |-> lit_scoring_wedge]
        @@ [c \in {"9i", "8i"} |-> lit_short_iron]
        @@ [c \in {"7i", "6i", "5i"} |-> lit_mid_iron]
        @@ [c \in {"4i", "3H", "3W", "Driver"} |-> lit_long]

\* C19: for every positive driver speed, every shot build_all_candidate_shots
\* produces (candidate list, scoring-wedge list, full-bag table) has
\* total >= carry >= 0, and its category is the fixed function of its club.
C19_TotalCarryCategory ==
    (BagReturned /\ call.driver_speed_mph > 0) =>
        /\ \A i \in 1..Len(ret.all_shots) :
              LET c == ret.all_shots[i]
              IN  /\ c.total >= c.carry
                  /\ c.carry >= 0
                  /\ c.category = CategoryOfClub[c.club]
        /\ \A i \in 1..Len(ret.scoring_shots) :
              LET c == ret.scoring_shots[i]
              IN  /\ c.total >= c.carry
                  /\ c.carry >= 0
                  /\ c.category = CategoryOfClub[c.club]
        /\ \A i \in 1..Len(ret.full_bag) :
              LET r == ret.full_bag[i]
              IN  r.Total >= r.Carry /\ r.Carry >= 0
        /\ Len(ret.all_shots) = 9 + Len(ret.scoring_shots)

\* at 100 mph the driver carries 233 and runs out to 285
C19_Witness ==
    /\ BagReturned
    /\ call.driver_speed_mph = BASELINE_DRIVER_SPEED
    /\ ret.all_shots[1].club = "Driver"
    /\ ret.all_shots[1].carry = 233 * YardUnit
    /\ ret.all_shots[1].total = 285 * YardUnit
    /\ ret.all_shots[10].carry = 121 * YardUnit
    /\ ret.all_shots[10].total = ret.all_shots[10].carry

InvalidInput == [raised |-> "InvalidInput"]

\* C20 (as stated): building the bag with a reference speed of zero or less
\* is rejected with an InvalidInput error and produces no shot list.
C20_NonPositiveSpeedRejected ==
    (BagReturned /\ call.driver_speed_mph <= 0) => ret = InvalidInput

(***************************************************************************)
(* Wedge shots.  The multipliers of the two statements below are written   *)
(* out per wedge, in hundredths, in the order Full, Choke-Down, 3/4, 1/2,  *)
(* 1/4.                                                                    *)
(***************************************************************************)
SwingTypes == <<"Full", "Choke-Down", "3/4", "1/2", "1/4">>

SwingIndex(shot_type) == CHOOSE i \in 1..Len(SwingTypes) : SwingTypes[i] = shot_type

GenericFractions == <<100, 94, 80, 60, 40>>

WedgeFractions ==
    ("PW" :> <<100, 94, 82, 62, 42>>) @@ ("GW" :> <<100, 94, 80, 60, 40>>)
        @@ ("SW" :> <<100, 94, 80, 60, 40>>)
        @@ ("LW" :> <<100, 92, 78, 58, 38>>)

\* the wedge's scaled full-swing carry times a multiplier in hundredths
FractionOfFullCarry(club, speed, hundredths) ==
    IF speed < 0 THEN PyComplex
    ELSE YardsOf((FULL_WEDGE_CARRIES[club] * Pow103(speed) * hundredths) \div 100)

\* C21 (as stated): every wedge shot carries the wedge's scaled full-swing
\* carry times Full 1.00, Choke-Down 0.94, 3/4 0.80, 1/2 0.60, 1/4 0.40, and
\* its total equals its carry.
C21_GenericFractions ==
    BagReturned =>
        \A i \in 1..Len(ret.scoring_shots) :
            LET c == ret.scoring_shots[i]
            IN  /\ c.carry = FractionOfFullCarry(c.club, call.driver_speed_mph,
                                 GenericFractions[SwingIndex(c.shot_type)])
                /\ c.total = c.carry

\* C21 (amended): every wedge shot carries the wedge's scaled full-swing
\* carry times that wedge's own multiplier (PW 1.00, 0.94, 0.82, 0.62, 0.42;
\* GW and SW 1.00, 0.94, 0.80, 0.60, 0.40; LW 1.00, 0.92, 0.78, 0.58, 0.38),
\* its total equals its carry, and the 18 shots are the defined ones.
C21_WedgeFractions ==
    BagReturned =>
        /\ Len(ret.scoring_shots) = Len(SCORING_DEFS)
        /\ \A i \in 1..Len(ret.scoring_shots) :
              LET c == ret.scoring_shots[i]
              IN  /\ c.club = SCORING_DEFS[i][1]
                  /\ c.shot_type = SCORING_DEFS[i][2]
                  /\ c.carry = FractionOfFullCarry(c.club, call.driver_speed_mph,
                                   WedgeFractions[c.club][SwingIndex(c.shot_type)])
                  /\ c.total = c.carry

\* at 100 mph the 3/4 pitching wedge carries 0.82 * 121 = 99.22 yards and the
\* 1/2 lob wedge 0.58 * 78 = 45.24 yards
C21_Witness ==
    /\ BagReturned
    /\ call.driver_speed_mph = BASELINE_DRIVER_SPEED
    /\ ret.scoring_shots[3].club = "PW"
    /\ ret.scoring_shots[3].shot_type = "3/4"
    /\ 100 * ret.scoring_shots[3].carry = 9922 * YardUnit
    /\ ret.scoring_shots[11].club = "LW"
    /\ 100 * ret.scoring_shots[11].carry = 4524 * YardUnit
    /\ ret.scoring_shots[11].total = ret.scoring_shots[11].carry


(***************************************************************************)
(* Dispersion of zero or less                                              *)
(***************************************************************************)
\* the draw that puts all the probability mass at the mean
MeanDraw(candidate) == <<candidate.total - Query.target_total, 0>>

\* C22 (as stated): with a skill factor of zero or less (a computed sigma
\* <= 0) no call raises, and every draw of the simulation has depth error
\* total - target and lateral error 0.
C22_NonPositiveSigmaIsDirac ==
    (Query.skill_factor <= 0) =>
        /\ pc # "raised"
        /\ (pc = "evaluate" /\ evaluated # <<>>) =>
              \A i \in 1..Len(lastDraws) :
                  lastDraws[i] = MeanDraw(evaluated[Len(evaluated)])
        /\ (Par3Returned /\ ret.best # PyNone) =>
              \A i \in 1..Len(lastDraws) : lastDraws[i] = MeanDraw(ranked[1])


(***************************************************************************)
(* Dispersion and the lie                                                  *)
(***************************************************************************)
\* the arguments of the call in progress, played from another surface
FromSurface(surface) == [Query EXCEPT !.start_surface = surface]

\* C23 (as stated): the sigma used for a shot is base(category) x
\* skill_factor x lie_dispersion_factor(lie), so for a fixed category and a
\* positive skill factor a shot from the rough is simulated with a strictly
\* larger depth and lateral sigma than the same shot from the fairway.
C23_RoughWidensDispersion ==
    (/\ pc = "evaluate"
     /\ evaluated # <<>>
     /\ Query.start_surface = lit_rough
     /\ Query.skill_factor > 0) =>
        LET c == filtered[Len(evaluated)]
        IN  /\ SigmaDepth(c, Query) > SigmaDepth(c, FromSurface(lit_fairway))
            /\ SigmaLat(c, Query) > SigmaLat(c, FromSurface(lit_fairway))


(***************************************************************************)
(* PAR 4 AND PAR 5 STRATEGY                                                *)
(*                                                                         *)
(* Probabilities are counted in 1/MissUnit.  _normal_cdf is               *)
(* 0.5 * (1 + erf(x / sqrt(2))): NormalCdfGrid holds its values at         *)
(* x = 0, 0.05, 0.10, ... 4.50, and NormalCdf interpolates linearly        *)
(* between them (within 1/10000 of the float value); x is in 1/CdfUnit.    *)
(***************************************************************************)
MissUnit == SegmentLcm * 10

CdfUnit == 100 * 100

CdfStep == CdfUnit \div 20

NormalCdfGrid ==
    << 42000, 43675, 45346, 47008, 48658, 50291, 51905, 53494, 55055, 56586,
       58083, 59543, 60963, 62341, 63675, 64963, 66204, 67396, 68539, 69631,
       70673, 71664, 72604, 73494, 74334, 75125, 75869, 76565, 77216, 77824,
       78388, 78912, 79397, 79844, 80257, 80635, 80982, 81299, 81588, 81851,
       82089, 82305, 82499, 82675, 82832, 82973, 83099, 83212, 83311, 83400,
       83478, 83548, 83608, 83662, 83709, 83750, 83785, 83816, 83843, 83867,
       83887, 83904, 83919, 83931, 83942, 83952, 83959, 83966, 83972, 83976,
       83980, 83984, 83987, 83989, 83991, 83993, 83994, 83995, 83996, 83997,
       83997, 83998, 83998, 83999, 83999, 83999, 83999, 83999, 84000, 84000,
       84000 >>

NormalCdf(x) ==
    LET a    == Abs(x)
        i    == a \div CdfStep
        up   == IF i + 1 >= Len(NormalCdfGrid) THEN MissUnit
                ELSE NormalCdfGrid[i + 1]
                     + ((NormalCdfGrid[i + 2] - NormalCdfGrid[i + 1])
                            * (a % CdfStep)) \div CdfStep
    IN  IF x >= 0 THEN up ELSE MissUnit - up

lit_narrow == <<"n", "a", "r", "r", "o", "w">>

lit_wide == <<"w", "i", "d", "e">>

FAIRWAY_WIDTHS ==
    [label \in {lit_narrow, lit_medium, lit_wide} |->
        IF label = lit_narrow THEN 25 * YardUnit
        ELSE IF label = lit_medium THEN 35 * YardUnit
        ELSE 45 * YardUnit]

FairwayWidthYards(label) ==
    LET key == Lower(IF label = <<>> THEN lit_medium ELSE label)
    IN  IF key \in DOMAIN FAIRWAY_WIDTHS THEN FAIRWAY_WIDTHS[key]
        ELSE 35 * YardUnit

TeeClubs == {"Driver", "3W", "3H", "4i", "5i"}

\* lines 942-947: 2 * (1 - Phi(thresh / sigma_lat)), clamped to [0, 1]
MissProb(fairway_width, sigma_lat) ==
    IF sigma_lat <= 0 THEN 0
    ELSE LET thresh == fairway_width \div 2
             ratio  == ((thresh \div 1500) * CdfUnit) \div (sigma_lat \div 1500)
         IN  Min(Max(2 * (MissUnit - NormalCdf(ratio)), 0), MissUnit)

\* par4_strategy, lines 930-967: one turn of the loop, for a tee club
Par4Option(row, q) ==
    LET club       == row.Club
        cat        == ClubCategory(club)
        total      == row.Total
        remaining  == Max(30 * YardUnit, q.hole_yards - total)
        exp_after  == InterpExpectedStrokes(remaining, lit_fairway,
                                            q.sg_profile_factor)
        base_score == StrokeUnit + exp_after
        fairway_width == FairwayWidthYards(q.fairway_width_label)
        sigma_lat  == (GetLateralSigma(cat) \div 10) * q.skill_factor
        miss_prob  == MissProb(fairway_width, sigma_lat)
        sev_total  == TroubleSeverity(q.tee_left_trouble_label)
                      + TroubleSeverity(q.tee_right_trouble_label)
        strat_mult == StrategyPenaltyMultiplier(STRATEGY_BALANCED)
        penalty    == miss_prob * sev_total * strat_mult
                          * (StrokeHundredth \div MissUnit)
    IN  [tee_club |-> club,
         category |-> cat,
         avg_total |-> total,
         remaining_yards |-> remaining,
         expected_score |-> base_score + penalty,
         fairway_width |-> fairway_width,
         miss_prob |-> miss_prob,
         left_trouble |-> q.tee_left_trouble_label,
         right_trouble |-> q.tee_right_trouble_label]

\* options.sort(key=lambda o: o["expected_score"]): stable, smallest first
RECURSIVE InsertByScore(_, _)
InsertByScore(sorted, x) ==
    IF sorted = <<>> THEN <<x>>
    ELSE IF x.expected_score < Head(sorted).expected_score
         THEN <<x>> \o sorted
         ELSE <<Head(sorted)>> \o InsertByScore(Tail(sorted), x)

RECURSIVE SortByScore(_)
SortByScore(options) ==
    IF options = <<>> THEN <<>>
    ELSE InsertByScore(SortByScore(SubSeq(options, 1, Len(options) - 1)),
                       options[Len(options)])

\* variant: the options stay in bag order
Par4Strategy_Unsorted(q) ==
    LET tee_rows == SelectSeq(q.full_bag, LAMBDA row : row.Club \in TeeClubs)
        options  == [i \in 1..Len(tee_rows) |-> Par4Option(tee_rows[i], q)]
    IN  IF options = <<>>
        THEN [best |-> PyNone, options |-> <<>>, hole_yards |-> q.hole_yards]
        ELSE LET best == options[1]
                 baseline_from_tee ==
                     InterpExpectedStrokes(q.hole_yards, lit_fairway,
                                           q.sg_profile_factor)
             IN  [best |-> best @@ [sg_vs_baseline |->
                                       baseline_from_tee - best.expected_score],
                  options |-> options,
                  hole_yards |-> q.hole_yards]

Par4Strategy(q) ==
    LET tee_rows == SelectSeq(q.full_bag, LAMBDA row : row.Club \in TeeClubs)
        unsorted == [i \in 1..Len(tee_rows) |-> Par4Option(tee_rows[i], q)]
        options  == SortByScore(unsorted)
    IN  IF options = <<>>
        THEN [best |-> PyNone, options |-> <<>>, hole_yards |-> q.hole_yards]
        ELSE LET best == options[1]
                 baseline_from_tee ==
                     InterpExpectedStrokes(q.hole_yards, lit_fairway,
                                           q.sg_profile_factor)
             IN  [best |-> best @@ [sg_vs_baseline |->
                                       baseline_from_tee - best.expected_score],
                  options |-> options,
                  hole_yards |-> q.hole_yards]


(***************************************************************************)
(* par5_strategy                                                           *)
(***************************************************************************)
LayupTargets == <<70, 80, 90, 100, 110, 120>>

StrategyGo == "Go for it (second shot at green)"

StrategyLayup == "Lay up, then wedge"

\* lines 1033-1041: tee + layup + expected strokes from the fairway at L
LayupScore(target, q) ==
    2 * StrokeUnit
        + InterpExpectedStrokes(target * YardUnit, lit_fairway,
                                q.sg_profile_factor)

\* the first target with the lowest score (the loop replaces on < only)
LayupBestIndex(q) ==
    LET scores == [i \in 1..Len(LayupTargets) |->
                      LayupScore(LayupTargets[i], q)]
    IN  CHOOSE i \in 1..Len(LayupTargets) :
            /\ \A j \in 1..Len(LayupTargets) : scores[i] <= scores[j]
            /\ \A j \in 1..(i - 1) : scores[j] > scores[i]

\* variant: the plan with the higher score is chosen
Par5Strategy_PicksHigher(q) ==
    LET par4_res == Par4Strategy(q)
        best_tee == par4_res.best
    IN  IF best_tee = PyNone
        THEN [best_tee |-> PyNone, strategy |-> PyNone,
              hole_yards |-> q.hole_yards,
              go_for_it_score |-> PyNone, layup_score |-> PyNone]
        ELSE LET remaining_after_tee == best_tee.remaining_yards
                 layup_best_target   == LayupTargets[LayupBestIndex(q)]
                 layup_best_score    == LayupScore(layup_best_target, q)
                 go_for_it_score     ==
                     StrokeUnit
                         + InterpExpectedStrokes(remaining_after_tee, lit_rough,
                                                 q.sg_profile_factor)
                 go == go_for_it_score > layup_best_score
             IN  [best_tee |-> best_tee,
                  strategy |-> IF go THEN StrategyGo ELSE StrategyLayup,
                  hole_yards |-> q.hole_yards,
                  remaining_after_tee |-> remaining_after_tee,
                  layup_target |-> layup_best_target * YardUnit,
                  layup_score |-> layup_best_score,
                  go_for_it_score |-> go_for_it_score,
                  expected_score |-> IF go THEN go_for_it_score
                                     ELSE layup_best_score]

Par5Strategy(q) ==
    LET par4_res == Par4Strategy(q)
        best_tee == par4_res.best
    IN  IF best_tee = PyNone
        THEN [best_tee |-> PyNone, strategy |-> PyNone,
              hole_yards |-> q.hole_yards,
              go_for_it_score |-> PyNone, layup_score |-> PyNone]
        ELSE LET remaining_after_tee == best_tee.remaining_yards
                 layup_best_target   == LayupTargets[LayupBestIndex(q)]
                 layup_best_score    == LayupScore(layup_best_target, q)
                 go_for_it_score     ==
                     StrokeUnit
                         + InterpExpectedStrokes(remaining_after_tee, lit_rough,
                                                 q.sg_profile_factor)
                 go == go_for_it_score < layup_best_score
             IN  [best_tee |-> best_tee,
                  strategy |-> IF go THEN StrategyGo ELSE StrategyLayup,
                  hole_yards |-> q.hole_yards,
                  remaining_after_tee |-> remaining_after_tee,
                  layup_target |-> layup_best_target * YardUnit,
                  layup_score |-> layup_best_score,
                  go_for_it_score |-> go_for_it_score,
                  expected_score |-> IF go THEN go_for_it_score
                                     ELSE layup_best_score]

(***************************************************************************)
(* A run is one call of par4_strategy or par5_strategy.  The bags are the  *)
(* full bag of a 100-mph and of an 85-mph driver, the first one in         *)
(* reverse order, its clubs from the 6 iron down (no tee club), and the    *)
(* empty bag.  Hole lengths are in whole yards.                            *)
(***************************************************************************)
MaxHoleYards == 700

HoleYards == {h \in 150..MaxHoleYards : h % 50 = 0} \cup {MaxHoleYards}

StockBag == BuildFullBag(BASELINE_DRIVER_SPEED, FirmnessMedium)

Reversed(s) == [i \in 1..Len(s) |-> s[Len(s) + 1 - i]]

ParBags ==
    {StockBag, BuildFullBag(85, FirmnessMedium), Reversed(StockBag),
     SelectSeq(StockBag, LAMBDA row : row.Club \notin TeeClubs), <<>>}

FairwayLabels == {lit_narrow, lit_medium, lit_wide, Upper(lit_narrow), <<>>, lit_none}

ParSkillFactors == {0, 8, 10, 13}

\* skill factor, fairway width, trouble left and right of the fairway
TeeSituations ==
    ({<<k, w, TroubleSevere, rt>> :
         k \in ParSkillFactors, w \in {lit_narrow, lit_wide},
         rt \in {TroubleNone, TroubleSevere}}
     \cup {<<10, w, TroubleMild, TroubleNone>> : w \in FairwayLabels})
    \cup {<<10, lit_medium, TroubleNone, TroubleNone>>}

ParProfileFactors == {5, 10, 13}

ParCall(fn, h, bag, k, w, lt, rt, pf) ==
    [fn |-> fn, hole_yards |-> h * YardUnit, full_bag |-> bag,
     skill_factor |-> k, fairway_width_label |-> w,
     tee_left_trouble_label |-> lt, tee_right_trouble_label |-> rt,
     sg_profile_factor |-> pf]

ParCalls ==
    {ParCall(fn, h, bag, t[1], t[2], t[3], t[4], pf) :
        fn \in {"par4_strategy", "par5_strategy"}, h \in HoleYards,
        bag \in ParBags, t \in TeeSituations, pf \in ParProfileFactors}

InitPar ==
    /\ pc = "called"
    /\ call \in ParCalls
    /\ ret = PyNone
    /\ filtered = <<>>
    /\ evaluated = <<>>
    /\ lastDraws = <<>>
    /\ ranked = <<>>
    /\ session = PyNone
    /\ engineCalls = <<>>

CallPar4Strategy ==
    /\ pc = "called"
    /\ call.fn = "par4_strategy"
    /\ ret' = Par4Strategy(call)
    /\ pc' = "returned"
    /\ UNCHANGED <<call, recVars, appVars>>

CallPar5Strategy ==
    /\ pc = "called"
    /\ call.fn = "par5_strategy"
    /\ ret' = Par5Strategy(call)
    /\ pc' = "returned"
    /\ UNCHANGED <<call, recVars, appVars>>

NextPar == CallPar4Strategy \/ CallPar5Strategy

SpecPar == InitPar /\ [][NextPar]_vars

Par4Returned == pc = "returned" /\ call.fn = "par4_strategy"

Par5Returned == pc = "returned" /\ call.fn = "par5_strategy"


(***************************************************************************)
(* Properties of par5_strategy and par4_strategy                           *)
(***************************************************************************)
Par5Compared == Par5Returned /\ ret.best_tee # PyNone

\* C24: when par5_strategy compares the two plans, expected_score is the
\* lower of layup_score and go_for_it_score, 'strategy' names the plan with
\* that score, and the go-for-it plan is named only when at most 260 yards
\* remain after the tee shot.
C24_LowerPlanWithin260 ==
    Par5Compared =>
        /\ ret.expected_score = Min(ret.layup_score, ret.go_for_it_score)
        /\ ret.strategy \in {StrategyGo, StrategyLayup}
        /\ (ret.strategy = StrategyGo) =>
              /\ ret.expected_score = ret.go_for_it_score
              /\ ret.remaining_after_tee <= 260 * YardUnit
        /\ (ret.strategy = StrategyLayup) =>
              ret.expected_score = ret.layup_score

\* going for the green from 200 yards or more, the lay-up being dearer
C24_Witness ==
    /\ Par5Compared
    /\ ret.strategy = StrategyGo
    /\ ret.remaining_after_tee >= 200 * YardUnit
    /\ ret.go_for_it_score < ret.layup_score

\* the tee clubs of the bag of the call, in bag order
TeeRows == SelectSeq(call.full_bag, LAMBDA row : row.Club \in {"Driver", "3W", "3H", "4i", "5i"})

\* the fairway widths of the claim, written out
ClaimedWidths ==
    (lit_narrow :> 25 * YardUnit) @@ (lit_medium :> 35 * YardUnit)
        @@ (lit_wide :> 45 * YardUnit)

\* C29: par4_strategy returns one option per tee club of the bag and no
\* other; each has expected_score = 1 + expected_strokes(max(30, hole_yards
\* - total), fairway) + miss_prob x (left severity + right severity), with
\* miss_prob in [0, 1] computed from the lateral sigma and half the fairway
\* width (narrow 25, medium 35, wide 45 yards); the options are in ascending
\* order of expected_score and 'best' is the first; with no tee club in the
\* bag best is None and there are no options.
C29_Par4Options ==
    Par4Returned =>
        /\ Len(ret.options) = Len(TeeRows)
        /\ \A i \in 1..Len(TeeRows) :
              \E j \in 1..Len(ret.options) :
                  /\ ret.options[j].tee_club = TeeRows[i].Club
                  /\ ret.options[j].avg_total = TeeRows[i].Total
        /\ \A j \in 1..Len(ret.options) :
              LET o         == ret.options[j]
                  remaining == Max(30 * YardUnit, call.hole_yards - o.avg_total)
                  severity  == TroubleSeverity(call.tee_left_trouble_label)
                               + TroubleSeverity(call.tee_right_trouble_label)
                  width     == Lower(call.fairway_width_label)
              IN  /\ o.miss_prob \in 0..MissUnit
                  /\ (width \in DOMAIN ClaimedWidths) =>
                        o.fairway_width = ClaimedWidths[width]
                  /\ o.miss_prob =
                        MissProb(o.fairway_width,
                                 (GetLateralSigma(o.category) \div 10)
                                     * call.skill_factor)
                  /\ o.expected_score =
                        StrokeUnit
                        + InterpExpectedStrokes(remaining, lit_fairway,
                                                call.sg_profile_factor)
                        + o.miss_prob * severity * 10
                              * (StrokeHundredth \div MissUnit)
        /\ \A i, j \in 1..Len(ret.options) :
              (i < j) =>
                  ret.options[i].expected_score <= ret.options[j].expected_score
        /\ (TeeRows # <<>>) =>
              /\ ret.best # PyNone
              /\ ret.best.tee_club = ret.options[1].tee_club
              /\ \A j \in 1..Len(ret.options) :
                    ret.best.expected_score <= ret.options[j].expected_score
        /\ (TeeRows = <<>>) => (ret.best = PyNone /\ ret.options = <<>>)

\* five options with a miss penalty, the 5 iron first and the 4 iron last:
\* not the order of the bag
C29_Witness ==
    /\ Par4Returned
    /\ Len(ret.options) = 5
    /\ ret.best.tee_club = "5i"
    /\ ret.options[5].tee_club = "4i"
    /\ ret.options[1].miss_prob > 0
    /\ ret.options[1].miss_prob < ret.options[5].miss_prob
    /\ TroubleSeverity(call.tee_left_trouble_label) > 0


(***************************************************************************)
(* THE APP (app.py)                                                        *)
(*                                                                         *)
(* Streamlit runs the whole script again after every user action, with the *)
(* pressed button (at most one) reading True.  session is                  *)
(* st.session_state with the value of the Range tab's checkbox; call is    *)
(* the user action of the last run and its widget values, engineCalls the  *)
(* engine calls the run made, in order, and ret where the run ended.  The  *)
(* engine has no lie_dispersion_factor and no generate_random_scenario:    *)
(* the run ends with AttributeError where the script reads one of them.    *)
(***************************************************************************)
AttributeError == [raised |-> "AttributeError"]

\* DEFAULTS, and the Range tab's checkbox (value=True)
AppDefaults ==
    [mode |-> "Quick", skill |-> "Intermediate", tendency |-> TendencyNeutral,
     tournament_mode |-> FALSE, handicap_factor |-> 10,
     driver_speed |-> BASELINE_DRIVER_SPEED, use_scoring |-> TRUE]

EngineCall(fn, args) == [fn |-> fn, args |-> args]

\* line 190, with the driver speed slider left at its default
AppShots == BuildAllCandidateShots(AppDefaults.driver_speed)

BuildCalls ==
    <<EngineCall("build_all_candidate_shots", <<AppDefaults.driver_speed>>)>>

\* lines 336-341 and 1070-1073: the dispersion column of a yardage table
DispersionColumn(df) ==
    [i \in 1..Len(df) |-> EngineCall("get_dispersion_sigma", <<df[i].Club>>)]

\* lines 529-540, in tenths ("Intermediate" is neither of the two tested)
AppSkillFactor(skill, sess) ==
    LET base == IF skill = "Recreational" THEN 13
                ELSE IF skill = "Highly Consistent" THEN 8
                ELSE 10
    IN  (base * sess.handicap_factor) \div 10

\* lines 569-577
AutoStrategy(target_final, trouble_short_label, trouble_long_label) ==
    IF target_final > 190 * YardUnit \/ trouble_long_label = TroubleSevere
    THEN STRATEGY_CONSERVATIVE
    ELSE IF target_final < 130 * YardUnit /\ trouble_short_label = TroubleNone
    THEN STRATEGY_AGGRESSIVE
    ELSE STRATEGY_BALANCED

\* lines 384-527: the values the script holds when the button is tested.
\* w holds the widget values of the run.
SuggestInputs(sess, w) ==
    IF sess.mode = "Advanced"
    THEN [use_auto_strategy |-> w.use_auto_strategy,
          strategy_label |-> w.expander_strategy,
          trouble_short_label |-> w.trouble_short_label,
          trouble_long_label |-> w.trouble_long_label,
          left_trouble_label |-> TroubleNone,
          right_trouble_label |-> TroubleNone,
          tendency |-> w.tendency]
    ELSE [use_auto_strategy |-> TRUE,
          strategy_label |-> STRATEGY_BALANCED,
          trouble_short_label |-> TroubleNone,
          trouble_long_label |-> TroubleNone,
          left_trouble_label |-> TroubleNone,
          right_trouble_label |-> TroubleNone,
          tendency |-> TendencyNeutral]

\* lines 547-600: the engine calls of 'Suggest Shots'
SuggestCalls(sess, w) ==
    LET inp               == SuggestInputs(sess, w)
        target_pin        == w.target_pin * YardUnit
        wind_dir          == Lower(w.wind_dir_label)
        wind_strength     == Lower(w.wind_strength_label)
        lie               == Lower(w.lie_label)
        target_after_wind == AdjustForWind(target_pin, wind_dir, wind_strength)
        target_after_elev == ApplyElevation(target_after_wind, w.elevation_label)
        target_final      == TendencyBias(ApplyLie(target_after_elev, lie),
                                          inp.tendency)
        strategy_label    ==
            IF inp.use_auto_strategy
            THEN AutoStrategy(target_final, inp.trouble_short_label,
                              inp.trouble_long_label)
            ELSE inp.strategy_label
    IN  << EngineCall("adjust_for_wind", <<target_pin, wind_dir, wind_strength>>),
           EngineCall("apply_elevation", <<target_after_wind, w.elevation_label>>),
           EngineCall("apply_lie", <<target_after_elev, lie>>),
           EngineCall("recommend_shots_with_sg",
                      [target_total |-> target_final,
                       short_trouble_label |-> inp.trouble_short_label,
                       long_trouble_label |-> inp.trouble_long_label,
                       left_trouble_label |-> inp.left_trouble_label,
                       right_trouble_label |-> inp.right_trouble_label,
                       green_firmness_label |-> FirmnessMedium,
                       strategy_label |-> strategy_label,
                       start_distance_yards |-> target_pin,
                       start_surface |-> lit_fairway,
                       skill_factor |-> AppSkillFactor(sess.skill, sess),
                       green_width |-> 0,
                       top_n |-> 5,
                       sg_profile_factor |-> sess.handicap_factor]) >>

\* lines 602-609: a non-empty result is shown, reading lie_dispersion_factor
SuggestRanked(all_shots, calls) ==
    FilterCandidates(all_shots, calls[Len(calls)].args.target_total) # <<>>

\* lines 1279-1339: the engine call of 'Run Hole Strategy'
StrategyCalls(sess, w) ==
    LET skill_factor == sess.handicap_factor
        tee == [hole_yards |-> w.hole_yards * YardUnit,
                skill_factor |-> skill_factor,
                fairway_width_label |-> w.fairway_width,
                tee_left_trouble_label |-> w.tee_left_trouble,
                tee_right_trouble_label |-> w.tee_right_trouble,
                sg_profile_factor |-> sess.handicap_factor]
    IN  IF w.par_type = "Par 3"
        THEN <<EngineCall("par3_strategy",
                          [hole_yards |-> w.hole_yards * YardUnit,
                           skill_factor |-> skill_factor,
                           green_width |-> 0,
                           strategy_label |-> STRATEGY_BALANCED,
                           sg_profile_factor |-> sess.handicap_factor])>>
        ELSE IF w.par_type = "Par 4"
        THEN <<EngineCall("par4_strategy", tee)>>
        ELSE <<EngineCall("par5_strategy", tee)>>

\* The tabs of one run, given what line 190 built and the calls of the
\* Play tab's button: the engine calls made and the tab in which the run
\* ends.
ScriptTabs(sess, action, shots, suggested) ==
    LET column   == DispersionColumn(shots.full_bag)
        play     == IF sess.tournament_mode THEN column ELSE suggested
        range    == IF sess.use_scoring
                    THEN <<EngineCall("get_dispersion_sigma", <<"Driver">>)>>
                    ELSE <<>>
        strategy == IF action.fn = "Run Hole Strategy"
                    THEN StrategyCalls(sess, action) ELSE <<>>
    IN  IF suggested # <<>> /\ SuggestRanked(shots.all_shots, suggested)
        THEN [calls |-> BuildCalls \o play, ended |-> "Play"]
        ELSE IF sess.use_scoring
        THEN [calls |-> BuildCalls \o play \o range, ended |-> "Range"]
        ELSE [calls |-> BuildCalls \o play \o column \o strategy,
              ended |-> "Tournament Prep"]

\* One run of the script, top to bottom.
ScriptRun(sess, action) ==
    ScriptTabs(sess, action, AppShots,
               IF ~sess.tournament_mode /\ action.fn = "Suggest Shots"
               THEN SuggestCalls(sess, action) ELSE <<>>)

\* what a run leaves behind: the engine calls it made, the exception that
\* ended it and the tab that raised it
RunOutcome(run) ==
    /\ engineCalls' = run.calls
    /\ ret' = [raised |-> "AttributeError", tab |-> run.ended]


(***************************************************************************)
(* User actions.  Each one sets the widget it touches and runs the script  *)
(* again.  A widget can be used when the last run drew it: the Play tab's  *)
(* Caddy widgets outside Tournament Mode, the Range tab's checkbox when    *)
(* the run got past the Play tab, the Par Strategy tab's button when the   *)
(* run got past the Range tab.                                             *)
(***************************************************************************)
AppPins == {10, 100, 130, 150, 190, 200, 300}

QuickWidgets ==
    [fn : {"Suggest Shots"},
     target_pin : AppPins,
     wind_dir_label : {WindNone, WindInto},
     wind_strength_label : {StrengthHeavy},
     lie_label : {LieGood, LieBad},
     elevation_label : {Flat}]

AdvancedWidgets ==
    [fn : {"Suggest Shots"},
     target_pin : {100, 150, 200},
     wind_dir_label : {WindNone},
     wind_strength_label : {WindNone},
     lie_label : {LieGood},
     elevation_label : {Flat},
     use_auto_strategy : BOOLEAN,
     expander_strategy : {STRATEGY_CONSERVATIVE, STRATEGY_BALANCED,
                          STRATEGY_AGGRESSIVE},
     trouble_short_label : {TroubleNone, TroubleMild},
     trouble_long_label : {TroubleNone, TroubleSevere},
     tendency : {TendencyNeutral, TendencyShort}]

StrategyWidgets ==
    [fn : {"Run Hole Strategy"},
     par_type : {"Par 3", "Par 4", "Par 5"},
     hole_yards : {60, 420, 650},
     fairway_width : {<<"N">> \o Tail(lit_narrow), <<"M">> \o Tail(lit_medium)},
     tee_left_trouble : {TroubleNone, TroubleSevere},
     tee_right_trouble : {TroubleNone}]

\* the app as first opened
InitApp ==
    /\ pc = "app"
    /\ call = [fn |-> "open"]
    /\ session = AppDefaults
    /\ \E run \in {ScriptRun(AppDefaults, [fn |-> "open"])} :
           /\ engineCalls = run.calls
           /\ ret = [raised |-> "AttributeError", tab |-> run.ended]
    /\ filtered = <<>>
    /\ evaluated = <<>>
    /\ lastDraws = <<>>
    /\ ranked = <<>>

\* lines 119-125: the sidebar's checkbox
ToggleTournamentMode ==
    /\ pc = "app"
    /\ LET sess   == [session EXCEPT !.tournament_mode = ~@]
           action == [fn |-> "Tournament Mode (rules-safe)"]
       IN  /\ session' = sess
           /\ call' = action
           /\ \E run \in {ScriptRun(sess, action)} : RunOutcome(run)
    /\ UNCHANGED <<pc, recVars>>

\* lines 374-382: the Quick / Advanced radio
SelectMode ==
    /\ pc = "app"
    /\ ~session.tournament_mode
    /\ \E m \in {"Quick", "Advanced"} \ {session.mode} :
           LET sess   == [session EXCEPT !.mode = m]
               action == [fn |-> "Mode"]
           IN  /\ session' = sess
               /\ call' = action
               /\ \E run \in {ScriptRun(sess, action)} : RunOutcome(run)
    /\ UNCHANGED <<pc, recVars>>

\* lines 1015-1018: the Range tab's checkbox
ToggleUseScoring ==
    /\ pc = "app"
    /\ ret.tab \in {"Range", "Tournament Prep"}
    /\ LET sess   == [session EXCEPT !.use_scoring = ~@]
           action == [fn |-> "Show wedge scoring/partial shots"]
       IN  /\ session' = sess
           /\ call' = action
           /\ \E run \in {ScriptRun(sess, action)} : RunOutcome(run)
    /\ UNCHANGED <<pc, recVars>>

\* line 547
SuggestShots ==
    /\ pc = "app"
    /\ ~session.tournament_mode
    /\ \E w \in (IF session.mode = "Advanced" THEN AdvancedWidgets
                  ELSE QuickWidgets) :
           /\ call' = w
           /\ \E run \in {ScriptRun(session, w)} : RunOutcome(run)
    /\ UNCHANGED <<pc, session, recVars>>

\* line 1279
RunHoleStrategy ==
    /\ pc = "app"
    /\ ret.tab = "Tournament Prep"
    /\ \E w \in StrategyWidgets :
           /\ call' = w
           /\ \E run \in {ScriptRun(session, w)} : RunOutcome(run)
    /\ UNCHANGED <<pc, session, recVars>>

NextApp ==
    \/ ToggleTournamentMode
    \/ SelectMode
    \/ ToggleUseScoring
    \/ SuggestShots
    \/ RunHoleStrategy

SpecApp == InitApp /\ [][NextApp]_vars

\* the engine calls the yardage-book promise of Tournament Mode rules out
AdviceCalls ==
    {"adjust_for_wind", "apply_elevation", "apply_lie",
     "recommend_shots_with_sg", "par3_strategy", "par4_strategy",
     "par5_strategy", "calculate_plays_like_yardage"}

CandidateSimulated ==
    /\ pc = "evaluate"
    /\ call.fn = "recommend_shots_with_sg"
    /\ Len(evaluated) > 0

\* severity x strategy multiplier in hundredths of a stroke, as documented
PenaltyHundredths(label, strategy_label) ==
    (IF label = TroubleMild THEN 4 ELSE IF label = TroubleSevere THEN 10 ELSE 0)
    * (IF strategy_label = STRATEGY_CONSERVATIVE THEN 13
       ELSE IF strategy_label = STRATEGY_AGGRESSIVE THEN 7
       ELSE 10)

\* the side threshold in yards x 10: 12 yards, or 70% of half the green
SideLimitTenths(green_width) ==
    IF green_width > 0 THEN (7 * green_width) \div (2 * YardUnit) ELSE 120

\* the penalty hundredths a draw collects, direction by direction
DrawPenaltyHundredths(draw, q) ==
    (IF draw[1] < -5 * YardUnit
     THEN PenaltyHundredths(q.short_trouble_label, q.strategy_label) ELSE 0)
    + (IF draw[1] > 5 * YardUnit
       THEN PenaltyHundredths(q.long_trouble_label, q.strategy_label) ELSE 0)
    + (IF 10 * draw[2] < -SideLimitTenths(q.green_width) * YardUnit
       THEN PenaltyHundredths(q.left_trouble_label, q.strategy_label) ELSE 0)
    + (IF 10 * draw[2] > SideLimitTenths(q.green_width) * YardUnit
       THEN PenaltyHundredths(q.right_trouble_label, q.strategy_label) ELSE 0)

\* 1 + expected strokes from where the draw finishes, before penalties
DrawBaseStrokes(draw, q) ==
    LET remaining == Hypot(draw[1], draw[2])
    IN  StrokeUnit
        + InterpExpectedStrokes(remaining,
                                IF remaining <= 5 * YardUnit THEN lit_green
                                ELSE q.start_surface,
                                q.sg_profile_factor)

\* C28: each draw counts 1 + expected strokes from where it finishes plus,
\* for each direction whose trouble label is not 'None' and whose threshold
\* is strictly exceeded (more than 5 yards short or long; more than 12 yards
\* left or right, or more than 70% of half the green width when one is
\* given), severity (mild 0.4, severe 1.0) x strategy multiplier
\* (Conservative 1.3, Balanced 1.0, Aggressive 0.7); expected strokes of the
\* candidate is the mean of these values over the n_sim draws.
C28_PerDrawStrokes ==
    CandidateSimulated =>
        /\ Len(lastDraws) = Query.n_sim
        /\ evaluated[Len(evaluated)].expected_strokes * Query.n_sim
              = SumSeq([i \in 1..Len(lastDraws) |->
                           DrawBaseStrokes(lastDraws[i], Query)
                           + DrawPenaltyHundredths(lastDraws[i], Query)
                               * StrokeHundredth])

\* an Aggressive call with mild trouble long: one draw on the 5-yard
\* threshold pays nothing, one draw 12 yards long pays 0.4 x 0.7
C28_Witness ==
    /\ CandidateSimulated
    /\ Query.strategy_label = STRATEGY_AGGRESSIVE
    /\ Query.long_trouble_label = TroubleMild
    /\ lastDraws = <<<<5 * YardUnit, 0>>, <<12 * YardUnit, 16 * YardUnit>>>>
    /\ DrawPenaltyHundredths(lastDraws[1], Query) = 0
    /\ DrawPenaltyHundredths(lastDraws[2], Query) = 28
    /\ 2 * evaluated[Len(evaluated)].expected_strokes
          = DrawBaseStrokes(lastDraws[1], Query)
            + DrawBaseStrokes(lastDraws[2], Query) + 28 * StrokeHundredth

\* a candidate simulated with no trouble in any direction: no draw of it
\* carries a penalty
NoTroubleSimulated ==
    /\ CandidateSimulated
    /\ \A lbl \in {Query.short_trouble_label, Query.long_trouble_label,
                    Query.left_trouble_label, Query.right_trouble_label} :
           lbl = TroubleNone

\* C30 (as stated): for a fixed start surface and profile factor the strokes
\* of a draw before penalties never decrease with its remaining distance: a
\* draw that finishes closer, one within 5 yards included, is never charged
\* more than a draw that finishes farther away.
C30_CloserNeverCostsMore ==
    NoTroubleSimulated =>
        \A i, j \in DOMAIN lastDraws :
            (Hypot(lastDraws[i][1], lastDraws[i][2])
                 <= Hypot(lastDraws[j][1], lastDraws[j][2]))
            => StrokesSample(lastDraws[i], Query)
                   <= StrokesSample(lastDraws[j], Query)


(***************************************************************************)
(* WHAT A CALL LEAVES BEHIND                                               *)
(***************************************************************************)
\* the records of the window are the caller's records, in the caller's order
WindowOfCallerRecords ==
    filtered = SelectSeq(call.candidates,
                         LAMBDA c : \E i \in 1..Len(filtered) : filtered[i] = c)

\* every evaluated entry repeats the fields of the caller's record
EntriesCopyRecords ==
    \A i \in 1..Len(evaluated) :
        /\ evaluated[i].club = filtered[i].club
        /\ evaluated[i].shot_type = filtered[i].shot_type
        /\ evaluated[i].category = filtered[i].category
        /\ evaluated[i].carry = filtered[i].carry
        /\ evaluated[i].total = filtered[i].total

================================================================================
